---- MODULE Spec2Model ----
(***************************************************************************)
(* Model of the standardized reference ET engine, class Daily of           *)
(* src/etmodels/ssebop/refetgee/daily.py.                                   *)
(*                                                                         *)
(* Earth Engine objects (ee.Image, ee.Number) are client-side expression   *)
(* graphs: every .add/.multiply/.expression call builds a node and nothing *)
(* is evaluated locally.  The model therefore represents every field as an *)
(* expression node [op, args]; two fields are the same value exactly when  *)
(* their graphs are equal.  Decimal literals are kept as their source text *)
(* ("0.34"), Python strings are sequences of one-character strings so that *)
(* str.lower() is a real conversion, and an instance is its attribute      *)
(* dictionary (a function whose DOMAIN is the set of attributes that       *)
(* exist, which is what hasattr tests).                                    *)
(***************************************************************************)
EXTENDS Integers, Sequences, FiniteSets, TLC

VARIABLES
    phase,      \* "new" | "constructed" | "failed" : outcome of Daily(...)
    error,      \* "none" | "ValueError" | "AttributeError" : raised by __init__
    args,       \* the configuration arguments handed to Daily(...)
    self,       \* the instance's attribute dictionary
    calls,      \* call-count probe: formula / property-body name -> runs
    last,       \* what the most recent accessor call returned or raised
    naccess,    \* number of accessor calls made so far
    pc,         \* per thread: position inside lazy_property
    prop,       \* per thread: the output being accessed
    lcn,        \* per thread: the value of self.cn read inside _etsz
    lval,       \* per thread: the value fn(self) returned, not yet stored
    build,      \* one run of Daily.__init__ taken statement by statement
    other,      \* a second engine instance living beside `self`
    adp,        \* the most recent source-adapter call and what it built
    drv,        \* one run of a time-series driver (GFS_ET0 / NASA_ET0)
    num,        \* one numeric evaluation of the engine's or a source's formulas
    meteo,      \* one Landsat image passing verifyMeteoAvail / get_meteorology
    precip,     \* one call of retrievePrecip
    sebal       \* one run of TimeSeries' retrieveETandMeteo on one image

vars == <<phase, error, args, self, calls, last, naccess, pc, prop, lcn, lval,
          build, other, adp, drv, num, meteo, precip, sebal>>

(***************************************************************************)
(* Bounds                                                                  *)
(***************************************************************************)
MaxAccesses == 3        \* accessor calls per run of the sequential model
MaxThreadAccesses == 2  \* accessor calls per run of the threaded model
MaxOtherAccesses == 1   \* accessor calls on the second instance
MaxDays == 3            \* longest date range of a driver run, in days
MaxMissing == 2         \* most hourly samples missing from one day
MaxWindow == 3          \* longest precipitation window, in days
MaxMeteoHours == 5      \* hours spanned by the hourly weather dataset

Threads == {1, 2}

(***************************************************************************)
(* Python strings, None and str.lower()                                    *)
(***************************************************************************)
None == <<"<None>">>

UpperCase ==
    <<"A","B","C","D","E","F","G","H","I","J","K","L","M",
      "N","O","P","Q","R","S","T","U","V","W","X","Y","Z">>
LowerCase ==
    <<"a","b","c","d","e","f","g","h","i","j","k","l","m",
      "n","o","p","q","r","s","t","u","v","w","x","y","z">>

LowerChar(c) ==
    IF \E i \in 1..Len(UpperCase) : UpperCase[i] = c
    THEN LowerCase[CHOOSE i \in 1..Len(UpperCase) : UpperCase[i] = c]
    ELSE c

Lower(s) == [i \in 1..Len(s) |-> LowerChar(s[i])]

asce    == <<"a","s","c","e">>
refet   == <<"r","e","f","e","t">>
simple  == <<"s","i","m","p","l","e">>
full    == <<"f","u","l","l">>
array   == <<"a","r","r","a","y">>
alfalfa == <<"a","l","f","a","l","f","a">>
etr_s   == <<"e","t","r">>
tall    == <<"t","a","l","l">>
grass   == <<"g","r","a","s","s">>
eto_s   == <<"e","t","o">>
short   == <<"s","h","o","r","t">>

\* The argument values the model constructs engines and calls etsz with.
Methods ==
    { asce, <<"A","S","C","E">>, refet, <<"R","e","F","E","T">>,
      <<"b","o","g","u","s">>, <<"a","s","c">>, <<>> }

RsoTypes ==
    { None, simple, <<"S","i","m","p","l","e">>, <<"F","U","L","L">>,
      array, <<"A","r","r","a","y">>,
      <<"a","r","r">>, <<"b","o","g","u","s">> }

Surfaces ==
    { alfalfa, <<"E","T","r">>, <<"T","a","l","l">>,
      grass, <<"G","R","A","S","S">>, <<"E","T","O">>, <<"S","h","o","r","t">>,
      <<"u","n","k","n","o","w","n">>, <<"g","r","a","s">>, <<>> }

(***************************************************************************)
(* Expression graphs                                                       *)
(***************************************************************************)
Node(op, as) == [op |-> op, args |-> as]
Leaf(name)   == Node(name, <<>>)
Num(text)    == Leaf(text)
Str(s)       == Node("str", [i \in 1..Len(s) |-> Leaf(s[i])])
NoneNode     == Leaf("None")
Missing      == Leaf("AttributeError")

\* The fields a caller hands to Daily(...).
Inputs == [ tmax |-> Leaf("tmax"), tmin |-> Leaf("tmin"), ea |-> Leaf("ea"),
            rs |-> Leaf("rs"), uz |-> Leaf("uz"), zw |-> Leaf("zw"),
            elev |-> Leaf("elev"), lat |-> Leaf("lat"), doy |-> Leaf("doy") ]
RsoArgs == { None, <<"r","s","o">> }
RsoNode(rso) == IF rso = None THEN NoneNode ELSE Leaf("rso_arg")

(***************************************************************************)
(* Attribute dictionary                                                    *)
(***************************************************************************)
NoAttrs == [a \in {} |-> NoneNode]
HasAttr(s, a) == a \in DOMAIN s
GetAttr(s, a) == IF a \in DOMAIN s THEN s[a] ELSE Missing
SetAttr(s, a, v) == [b \in (DOMAIN s) \cup {a} |-> IF b = a THEN v ELSE s[b]]

(***************************************************************************)
(* calcs.* formulas.  Their bodies are outside the engine; each call is    *)
(* one node of the expression graph, so which formula ran on which         *)
(* operands stays visible in every value derived from it.                  *)
(***************************************************************************)
CalcFns == { "_air_pressure", "_es_slope", "_sat_vapor_pressure", "_vpd",
             "_ra_daily", "_rso_simple", "_rso_daily", "_fcd_daily",
             "_rnl_daily", "_rn", "_wind_height_adjust" }
LazyNames == { "eto", "etr", "etw", "eto_fs1", "eto_fs2", "pet_hargreaves" }
Probes == CalcFns \cup LazyNames \cup {"_etsz", "time_start"}

NoCalls == [f \in Probes |-> 0]
Bump(c, f, n) == [c EXCEPT ![f] = @ + n]

Multiply(a, b) == Node("multiply", <<a, b>>)
Add(a, b)      == Node("add", <<a, b>>)
Divide(a, b)   == Node("divide", <<a, b>>)
Pow(a, b)      == Node("pow", <<a, b>>)

(***************************************************************************)
(* Daily.__init__, lines 104-188                                           *)
(***************************************************************************)
\* Variant of method_valid: the comparison without .lower().
method_valid_nolower(method) == method \in {asce, refet}

\* line 104: method.lower() not in ["asce", "refet"]
method_valid(method) == Lower(method) \in {asce, refet}

\* Variant of rso_type_valid: the rso_type check left out.
rso_type_valid_skipped(rso_type) == TRUE

\* lines 107-113: None passes; otherwise the lower-cased value must be one
\* of the three names.  The 'array' branch (line 111) is a bare `pass`.
rso_type_valid(rso_type) ==
    \/ rso_type = None
    \/ Lower(rso_type) \in {simple, full, array}

\* Variant of rso_select: method and rso_type compared without .lower().
rso_select_nolower(s, method, rso_type, rso) ==
    LET simple_v == Node("_rso_simple", <<s["ra"], s["elev"]>>)
        full_v   == Node("_rso_daily",
                         <<s["ea"], s["ra"], s["pair"], s["doy"], s["lat"]>>)
    IN  IF rso_type = None
        THEN IF method = asce
             THEN [self |-> SetAttr(s, "rso", simple_v), fn |-> "_rso_simple"]
             ELSE IF method = refet
             THEN [self |-> SetAttr(s, "rso", full_v), fn |-> "_rso_daily"]
             ELSE [self |-> s, fn |-> "none"]
        ELSE IF rso_type = simple
        THEN [self |-> SetAttr(s, "rso", simple_v), fn |-> "_rso_simple"]
        ELSE IF rso_type = full
        THEN [self |-> SetAttr(s, "rso", full_v), fn |-> "_rso_daily"]
        ELSE IF rso_type = array
        THEN [self |-> SetAttr(s, "rso", RsoNode(rso)), fn |-> "none"]
        ELSE [self |-> s, fn |-> "none"]

\* lines 159-174: the clear-sky radiation branch.  Returns the attribute
\* dictionary after the branch and the formula that was called, if any.
rso_select(s, method, rso_type, rso) ==
    LET simple_v == Node("_rso_simple", <<s["ra"], s["elev"]>>)
        full_v   == Node("_rso_daily",
                         <<s["ea"], s["ra"], s["pair"], s["doy"], s["lat"]>>)
    IN  IF rso_type = None
        THEN IF Lower(method) = asce
             THEN [self |-> SetAttr(s, "rso", simple_v), fn |-> "_rso_simple"]
             ELSE IF Lower(method) = refet
             THEN [self |-> SetAttr(s, "rso", full_v), fn |-> "_rso_daily"]
             ELSE [self |-> s, fn |-> "none"]
        ELSE IF Lower(rso_type) = simple
        THEN [self |-> SetAttr(s, "rso", simple_v), fn |-> "_rso_simple"]
        ELSE IF Lower(rso_type) = full
        THEN [self |-> SetAttr(s, "rso", full_v), fn |-> "_rso_daily"]
        ELSE IF Lower(rso_type) = array
        THEN [self |-> SetAttr(s, "rso", RsoNode(rso)), fn |-> "none"]
        ELSE [self |-> s, fn |-> "none"]

\* lines 117-154: time_start, the inputs, latitude in radians and the
\* derived quantities up to ra.
init_head(in, method) ==
    LET m    == Str(method)
        ts   == Node("get_system:time_start", <<Node("Image", <<in.tmin>>)>>)
        lat  == Multiply(in.lat, Num("pi/180"))
        pair == Node("_air_pressure", <<in.elev, m>>)
        tmean == Multiply(Add(in.tmax, in.tmin), Num("0.5"))
        es   == Multiply(Add(Node("_sat_vapor_pressure", <<in.tmax>>),
                             Node("_sat_vapor_pressure", <<in.tmin>>)),
                         Num("0.5"))
    IN  [ time_start |-> ts,
          date     |-> Node("Date", <<ts>>),
          tmax     |-> in.tmax,
          tmin     |-> in.tmin,
          ea       |-> in.ea,
          rs       |-> in.rs,
          uz       |-> in.uz,
          zw       |-> in.zw,
          elev     |-> in.elev,
          lat      |-> lat,
          doy      |-> in.doy,
          pair     |-> pair,
          psy      |-> Multiply(pair, Num("0.000665")),
          tmean    |-> tmean,
          es_slope |-> Node("_es_slope", <<tmean, m>>),
          es       |-> es,
          vpd      |-> Node("_vpd", <<es, in.ea>>),
          ra       |-> Node("_ra_daily", <<lat, in.doy, m>>) ]

HeadCalls ==
    [f \in Probes |->
        IF f = "_sat_vapor_pressure" THEN 2
        ELSE IF f \in {"time_start", "_air_pressure", "_es_slope", "_vpd",
                       "_ra_daily"} THEN 1
        ELSE 0]

\* lines 176-188: fcd, rnl, rn and u2.
init_tail(s) ==
    LET fcd == Node("_fcd_daily", <<s["rs"], s["rso"]>>)
        rnl == Node("_rnl_daily", <<s["tmax"], s["tmin"], s["ea"], fcd>>)
        s1  == SetAttr(s, "fcd", fcd)
        s2  == SetAttr(s1, "rnl", rnl)
        s3  == SetAttr(s2, "rn", Node("_rn", <<s["rs"], rnl>>))
    IN  SetAttr(s3, "u2", Node("_wind_height_adjust", <<s["uz"], s["zw"]>>))

TailFns == {"_fcd_daily", "_rnl_daily", "_rn", "_wind_height_adjust"}

\* The constructor as a whole: what it raised, the attributes it left on the
\* instance and the formulas it called.
Daily__init__(in, method, rso_type, rso) ==
    IF ~method_valid(method)
    THEN [error |-> "ValueError", self |-> NoAttrs, calls |-> NoCalls]
    ELSE IF ~rso_type_valid(rso_type)
    THEN [error |-> "ValueError", self |-> NoAttrs, calls |-> NoCalls]
    ELSE
      LET head == init_head(in, method)
          sel  == rso_select(head, method, rso_type, rso)
          c1   == IF sel.fn = "none" THEN HeadCalls
                  ELSE Bump(HeadCalls, sel.fn, 1)
      IN  IF ~HasAttr(sel.self, "rso")
          \* line 177 reads self.rso
          THEN [error |-> "AttributeError", self |-> sel.self, calls |-> c1]
          ELSE [error |-> "none",
                self  |-> init_tail(sel.self),
                calls |-> [f \in Probes |->
                             IF f \in TailFns THEN c1[f] + 1 ELSE c1[f]]]

(***************************************************************************)
(* Outputs, lines 190-385                                                  *)
(***************************************************************************)
\* Variant of Tagged: the image is renamed but no time stamp is set.
Tagged_untagged(img, name, s) == Node("rename", <<img, Leaf(name)>>)

\* ....rename([name]).set("system:time_start", self.time_start)
Tagged(img, name, s) ==
    Node("set_system:time_start",
         <<Node("rename", <<img, Leaf(name)>>), GetAttr(s, "time_start")>>)

\* lines 237-248: the combination equation, reading self.cn and self.cd.
_etsz(s) ==
    Divide(
        Add(Multiply(Multiply(Multiply(Multiply(
                Pow(Add(GetAttr(s, "tmean"), Num("273")), Num("-1")),
                GetAttr(s, "u2")),
                GetAttr(s, "vpd")),
                GetAttr(s, "cn")),
                GetAttr(s, "psy")),
            Multiply(Multiply(GetAttr(s, "es_slope"), GetAttr(s, "rn")),
                     Num("0.408"))),
        Add(Multiply(Add(Multiply(GetAttr(s, "u2"), GetAttr(s, "cd")),
                         Num("1")),
                     GetAttr(s, "psy")),
            GetAttr(s, "es_slope")))

\* Variant of eto_assign: cn and cd written only when not yet on the instance.
eto_assign_once(s) ==
    IF HasAttr(s, "cn") THEN s
    ELSE SetAttr(SetAttr(s, "cn", Num("900")), "cd", Num("0.34"))

\* lines 213-214: the eto property writes cn and cd onto the instance.
eto_assign(s) == SetAttr(SetAttr(s, "cn", Num("900")), "cd", Num("0.34"))

\* lines 215-217: the image the eto property returns.
eto_return(s) == Node("Image", <<Tagged(_etsz(s), "et0", s)>>)

\* lines 211-217: body of the eto property.
eto(s) == [self |-> eto_assign(s), ret |-> eto_return(eto_assign(s))]

\* lines 222-223: the etr property writes cn and cd onto the instance.
etr_assign(s) == SetAttr(SetAttr(s, "cn", Num("1600")), "cd", Num("0.38"))

\* lines 224-226: the image the etr property returns.
etr_return(s) == Node("Image", <<Tagged(_etsz(s), "etr", s)>>)

\* lines 220-226: body of the etr property.
etr(s) == [self |-> etr_assign(s), ret |-> etr_return(etr_assign(s))]

\* lines 271-283
etw(s) ==
    [self |-> s,
     ret  |-> Tagged(
        Node("(alpha * es_slope * rn * 1000 / (2453 * (es_slope + psy)))",
             <<GetAttr(s, "es_slope"), GetAttr(s, "rn"), GetAttr(s, "psy"),
               Num("1.26")>>),
        "etw", s)]

\* lines 304-311
eto_fs1(s) ==
    [self |-> s,
     ret  |-> Tagged(
        Node("(delta / (delta + psy * (1 + 0.34 * u2))) * (0.408 * rn)",
             <<GetAttr(s, "es_slope"), GetAttr(s, "psy"), GetAttr(s, "u2"),
               GetAttr(s, "rn")>>),
        "eto_fs1", s)]

\* lines 331-347
eto_fs2(s) ==
    LET TT == Node("(900 / (t + 273)) * u2",
                   <<GetAttr(s, "tmean"), GetAttr(s, "u2")>>)
        PT == Node("psy / (slope + psy * (1 + 0.34 * u2))",
                   <<GetAttr(s, "es_slope"), GetAttr(s, "psy"),
                     GetAttr(s, "u2")>>)
    IN  [self |-> s,
         ret  |-> Tagged(
            Node("PT * TT * (es-ea)",
                 <<PT, TT, GetAttr(s, "es"), GetAttr(s, "ea")>>),
            "eto_fs2", s)]

\* lines 367-379
pet_hargreaves(s) ==
    [self |-> s,
     ret  |-> Tagged(
        Node("0.0023 * (tmean + 17.8) * ((tmax - tmin) ** 0.5) * 0.408 * ra",
             <<GetAttr(s, "tmean"), GetAttr(s, "tmax"), GetAttr(s, "tmin"),
               GetAttr(s, "ra")>>),
        "pet_hargreaves", s)]

\* line 22: attr_name = "_lazy_" + fn.__name__
attr_name(p) ==
    CASE p = "eto"            -> "_lazy_eto"
      [] p = "etr"            -> "_lazy_etr"
      [] p = "etw"            -> "_lazy_etw"
      [] p = "eto_fs1"        -> "_lazy_eto_fs1"
      [] p = "eto_fs2"        -> "_lazy_eto_fs2"
      [] p = "pet_hargreaves" -> "_lazy_pet_hargreaves"

\* The decorated function fn, by name.
fn(p, s) ==
    CASE p = "eto"            -> eto(s)
      [] p = "etr"            -> etr(s)
      [] p = "etw"            -> etw(s)
      [] p = "eto_fs1"        -> eto_fs1(s)
      [] p = "eto_fs2"        -> eto_fs2(s)
      [] p = "pet_hargreaves" -> pet_hargreaves(s)

RunOf(p) == [f \in Probes |->
               IF f = p \/ (f = "_etsz" /\ p \in {"eto", "etr"}) THEN 1 ELSE 0]

\* Variant of lazy_property: fn runs on every access.
lazy_property_nocache(p, s) ==
    LET r  == fn(p, s)
        s1 == SetAttr(r.self, attr_name(p), r.ret)
    IN  [self |-> s1, ret |-> GetAttr(s1, attr_name(p)),
         error |-> "none", ran |-> RunOf(p)]

\* lines 25-28: run fn and store its result unless the attribute exists,
\* then return the attribute.  `ran` is the probe increment of the call.
lazy_property(p, s) ==
    IF ~HasAttr(s, attr_name(p))
    THEN LET r  == fn(p, s)
             s1 == SetAttr(r.self, attr_name(p), r.ret)
         IN  [self |-> s1, ret |-> GetAttr(s1, attr_name(p)),
              error |-> "none", ran |-> RunOf(p)]
    ELSE [self |-> s, ret |-> GetAttr(s, attr_name(p)),
          error |-> "none", ran |-> NoCalls]

\* Variant of etsz: "short" listed with the tall-reference aliases.
etsz_misfiled(s, surface) ==
    IF Lower(surface) \in {alfalfa, etr_s, tall, short}
    THEN lazy_property("etr", s)
    ELSE IF Lower(surface) \in {grass, eto_s}
    THEN lazy_property("eto", s)
    ELSE [self |-> s, ret |-> NoneNode, error |-> "ValueError", ran |-> NoCalls]

\* Variant of etsz: an unrecognized surface falls back to the grass reference.
etsz_fallback(s, surface) ==
    IF Lower(surface) \in {alfalfa, etr_s, tall}
    THEN lazy_property("etr", s)
    ELSE lazy_property("eto", s)

\* lines 203-208
etsz(s, surface) ==
    IF Lower(surface) \in {alfalfa, etr_s, tall}
    THEN lazy_property("etr", s)
    ELSE IF Lower(surface) \in {grass, eto_s, short}
    THEN lazy_property("eto", s)
    ELSE [self |-> s, ret |-> NoneNode, error |-> "ValueError", ran |-> NoCalls]

(***************************************************************************)
(* Daily.__init__ statement by statement, lines 117-188: which attribute   *)
(* each assignment writes, which attributes of self it reads, and the      *)
(* value it stores.  Reading an attribute that has not been assigned yet   *)
(* raises AttributeError.                                                  *)
(***************************************************************************)
\* Variant of StmtOrder: cloudiness fraction computed ahead of rso.
StmtOrder_fcd_first ==
    << "time_start", "date", "tmax", "tmin", "ea", "rs", "uz", "zw", "elev",
       "lat", "doy", "lat_rad", "pair", "psy", "tmean", "es_slope", "es",
       "vpd", "ra", "fcd", "rso", "rnl", "rn", "u2" >>

\* The assignments in source order; "lat_rad" is line 132, the second
\* assignment to self.lat.
StmtOrder ==
    << "time_start", "date", "tmax", "tmin", "ea", "rs", "uz", "zw", "elev",
       "lat", "doy", "lat_rad", "pair", "psy", "tmean", "es_slope", "es",
       "vpd", "ra", "rso", "fcd", "rnl", "rn", "u2" >>

StmtTarget(id) == IF id = "lat_rad" THEN "lat" ELSE id

InputAttrs   == {"tmax", "tmin", "ea", "rs", "uz", "zw", "elev", "lat", "doy"}
DerivedAttrs == {"pair", "psy", "tmean", "es_slope", "es", "vpd", "ra", "rso",
                 "fcd", "rnl", "rn", "u2"}

\* The branch lines 159-174 take for a configuration.
RsoBranch(method, rso_type, rso) ==
    rso_select(init_head(Inputs, method), method, rso_type, rso).fn

\* The attributes of self a statement reads.
StmtReads(id, method, rso_type, rso) ==
    CASE id = "date"     -> {"time_start"}
      [] id = "lat_rad"  -> {"lat"}
      [] id = "pair"     -> {"elev"}
      [] id = "psy"      -> {"pair"}
      [] id = "tmean"    -> {"tmax", "tmin"}
      [] id = "es_slope" -> {"tmean"}
      [] id = "es"       -> {"tmax", "tmin"}
      [] id = "vpd"      -> {"es", "ea"}
      [] id = "ra"       -> {"lat", "doy"}
      [] id = "rso"      ->
            IF RsoBranch(method, rso_type, rso) = "_rso_simple"
            THEN {"ra", "elev"}
            ELSE IF RsoBranch(method, rso_type, rso) = "_rso_daily"
            THEN {"ea", "ra", "pair", "doy", "lat"}
            ELSE {}
      [] id = "fcd"      -> {"rs", "rso"}
      [] id = "rnl"      -> {"tmax", "tmin", "ea", "fcd"}
      [] id = "rn"       -> {"rs", "rnl"}
      [] id = "u2"       -> {"uz", "zw"}
      [] OTHER           -> {}

\* The value a statement stores, computed from self as it is at that point.
StmtValue(id, s, in, method, rso_type, rso) ==
    CASE id = "time_start" ->
            Node("get_system:time_start", <<Node("Image", <<in.tmin>>)>>)
      [] id = "date"     -> Node("Date", <<s["time_start"]>>)
      [] id \in InputAttrs -> in[id]
      [] id = "lat_rad"  -> Multiply(s["lat"], Num("pi/180"))
      [] id = "pair"     -> Node("_air_pressure", <<s["elev"], Str(method)>>)
      [] id = "psy"      -> Multiply(s["pair"], Num("0.000665"))
      [] id = "tmean"    -> Multiply(Add(s["tmax"], s["tmin"]), Num("0.5"))
      [] id = "es_slope" -> Node("_es_slope", <<s["tmean"], Str(method)>>)
      [] id = "es"       ->
            Multiply(Add(Node("_sat_vapor_pressure", <<s["tmax"]>>),
                         Node("_sat_vapor_pressure", <<s["tmin"]>>)),
                     Num("0.5"))
      [] id = "vpd"      -> Node("_vpd", <<s["es"], s["ea"]>>)
      [] id = "ra"       ->
            Node("_ra_daily", <<s["lat"], s["doy"], Str(method)>>)
      [] id = "rso"      -> rso_select(s, method, rso_type, rso).self["rso"]
      [] id = "fcd"      -> Node("_fcd_daily", <<s["rs"], s["rso"]>>)
      [] id = "rnl"      ->
            Node("_rnl_daily", <<s["tmax"], s["tmin"], s["ea"], s["fcd"]>>)
      [] id = "rn"       -> Node("_rn", <<s["rs"], s["rnl"]>>)
      [] id = "u2"       -> Node("_wind_height_adjust", <<s["uz"], s["zw"]>>)

NoArgs == [method |-> None, rso_type |-> None, rso |-> None]
NoBuild == [pc |-> 0, args |-> NoArgs, self |-> NoAttrs, error |-> "none",
            log |-> <<>>]
NoOther == [phase |-> "new", args |-> NoArgs, self |-> NoAttrs, n |-> 0]
NoIn == [f \in DOMAIN Inputs |-> NoneNode]

NoAdapterArgs ==
    [rs |-> None, zw |-> NoneNode, elev |-> NoneNode, lat |-> NoneNode,
     method |-> None, t |-> 0]

NoAdapter ==
    [name |-> "none", a |-> NoAdapterArgs, in |-> NoIn, error |-> "none",
     self |-> NoAttrs]
NoDriver ==
    [pc |-> "new", name |-> "none",
     cfg |-> [start |-> 0, end |-> 0, method |-> None, zw |-> NoneNode,
              tz |-> 0, call_method |-> None],
     first |-> 0, last |-> 0, days |-> 0, day_index |-> 0,
     records |-> <<>>, error |-> "none"]

(***************************************************************************)
(* State machine                                                           *)
(***************************************************************************)
NoNum == [op |-> "none", env |-> [tmean |-> <<0, 1>>, u2 |-> <<0, 1>>,
                                   psy |-> <<0, 1>>, es_slope |-> <<0, 1>>,
                                   rn |-> <<0, 1>>, es |-> <<0, 1>>,
                                   ea |-> <<0, 1>>],
          coll |-> <<>>, eto |-> <<0, 1>>, fs1 |-> <<0, 1>>, fs2 |-> <<0, 1>>,
          rs |-> <<0, 1>>]

NoMeteo ==
    [pc |-> "none", t |-> 0, dataset |-> {}, meteo_count |-> 0,
     previous |-> -1, next |-> -1, delta |-> <<0, 1>>, error |-> "none"]

NoPrecip ==
    [pc |-> "none", variant |-> "none", metadate |-> 0, window_days |-> 0,
     startDate |-> 0, endDate |-> 0, offsets |-> <<>>, daily |-> {},
     result |-> <<>>, error |-> "none"]

NoSebal ==
    [pc |-> "none", i |-> 0, calcRegionalET |-> FALSE, debug |-> FALSE,
     bound |-> {}, vals |-> [min |-> "unbound", max |-> "unbound"],
     etFeature |-> [status |-> "none", ET_R_min |-> "none",
                    ET_R_max |-> "none"],
     exc |-> "none", error |-> "none",
     ret |-> [kind |-> "none",
              feature |-> [status |-> "none", ET_R_min |-> "none",
                           ET_R_max |-> "none"]]]

NoResult == [op |-> "none", surface |-> None, ret |-> NoneNode,
             error |-> "none", computed |-> FALSE]

InitEngine ==
    /\ phase = "new"
    /\ error = "none"
    /\ args = NoArgs
    /\ self = NoAttrs
    /\ calls = NoCalls
    /\ last = NoResult
    /\ naccess = 0
    /\ pc = [t \in Threads |-> "idle"]
    /\ prop = [t \in Threads |-> "eto"]
    /\ lcn = [t \in Threads |-> NoneNode]
    /\ lval = [t \in Threads |-> NoneNode]
    /\ build = NoBuild
    /\ other = NoOther
    /\ adp = NoAdapter
    /\ drv = NoDriver

Init ==
    /\ InitEngine
    /\ num = NoNum
    /\ meteo = NoMeteo
    /\ precip = NoPrecip
    /\ sebal = NoSebal

threadvars == <<pc, prop, lcn, lval>>
extvars == <<build, other, adp, drv>>
enginevars == <<phase, error, args, self, calls, last, naccess>>
stepvars == <<num, meteo, precip, sebal>>

\* Daily(tmax, tmin, ea, rs, uz, zw, elev, lat, doy, method, rso_type, rso)
Construct ==
    /\ phase = "new"
    /\ \E method \in Methods, rso_type \in RsoTypes, rso \in RsoArgs :
         LET r == Daily__init__(Inputs, method, rso_type, rso)
         IN  /\ args' = [method |-> method, rso_type |-> rso_type, rso |-> rso]
             /\ error' = r.error
             /\ phase' = IF r.error = "none" THEN "constructed" ELSE "failed"
             /\ self' = r.self
             /\ calls' = r.calls
    /\ UNCHANGED <<last, naccess, threadvars>>
    /\ UNCHANGED <<extvars, stepvars>>

AddCalls(c, d) == [f \in Probes |-> c[f] + d[f]]

\* One accessor call made by the only thread of a sequential program.
Finish(op, surface, r) ==
    /\ self' = r.self
    /\ calls' = AddCalls(calls, r.ran)
    /\ last' = [op |-> op, surface |-> surface, ret |-> r.ret,
                error |-> r.error, computed |-> r.ran # NoCalls]
    /\ naccess' = naccess + 1
    /\ UNCHANGED <<phase, error, args, threadvars>>
    /\ UNCHANGED <<extvars, stepvars>>

CanAccess == phase = "constructed" /\ naccess < MaxAccesses

AccessEto == CanAccess /\ Finish("eto", None, lazy_property("eto", self))
AccessEtr == CanAccess /\ Finish("etr", None, lazy_property("etr", self))
AccessEtw == CanAccess /\ Finish("etw", None, lazy_property("etw", self))
AccessEtoFs1 ==
    CanAccess /\ Finish("eto_fs1", None, lazy_property("eto_fs1", self))
AccessEtoFs2 ==
    CanAccess /\ Finish("eto_fs2", None, lazy_property("eto_fs2", self))
AccessPetHargreaves ==
    CanAccess
    /\ Finish("pet_hargreaves", None, lazy_property("pet_hargreaves", self))
CallEtsz ==
    /\ CanAccess
    /\ \E surface \in Surfaces : Finish("etsz", surface, etsz(self, surface))

Next ==
    \/ Construct
    \/ AccessEto
    \/ AccessEtr
    \/ AccessEtw
    \/ AccessEtoFs1
    \/ AccessEtoFs2
    \/ AccessPetHargreaves
    \/ CallEtsz

Spec == Init /\ [][Next]_vars

(***************************************************************************)
(* The same accessors called from several threads.  lazy_property takes no *)
(* lock, so a thread can be preempted between any two attribute accesses:  *)
(* the hasattr test (line 26), the two writes of cn and cd (lines 213-214  *)
(* or 222-223), the reads of self.cn and self.cd inside _etsz (lines 242   *)
(* and 246), setattr (line 27) and getattr (line 28).  The other           *)
(* attributes _etsz reads are never written after construction, so they    *)
(* are read in the same step as self.cd.                                   *)
(***************************************************************************)
assign(p, s) == IF p = "eto" THEN eto_assign(s) ELSE etr_assign(s)
return(p, s) == IF p = "eto" THEN eto_return(s) ELSE etr_return(s)

Begin(t) ==
    /\ phase = "constructed"
    /\ naccess < MaxThreadAccesses
    /\ pc[t] = "idle"
    /\ \E p \in LazyNames : prop' = [prop EXCEPT ![t] = p]
    /\ pc' = [pc EXCEPT ![t] = "hasattr"]
    /\ naccess' = naccess + 1
    /\ UNCHANGED <<phase, error, args, self, calls, last, lcn, lval>>
    /\ UNCHANGED <<extvars, stepvars>>

\* line 26
Check(t) ==
    /\ pc[t] = "hasattr"
    /\ pc' = [pc EXCEPT ![t] =
                IF HasAttr(self, attr_name(prop[t])) THEN "getattr"
                ELSE IF prop[t] \in {"eto", "etr"} THEN "cn"
                ELSE "fn"]
    /\ UNCHANGED <<phase, error, args, self, calls, last, naccess, prop, lcn,
                   lval>>
    /\ UNCHANGED <<extvars, stepvars>>

\* line 213 / 222
SetCn(t) ==
    /\ pc[t] = "cn"
    /\ self' = SetAttr(self, "cn", assign(prop[t], self)["cn"])
    /\ pc' = [pc EXCEPT ![t] = "cd"]
    /\ UNCHANGED <<phase, error, args, calls, last, naccess, prop, lcn, lval>>
    /\ UNCHANGED <<extvars, stepvars>>

\* line 214 / 223
SetCd(t) ==
    /\ pc[t] = "cd"
    /\ self' = SetAttr(self, "cd", assign(prop[t], self)["cd"])
    /\ pc' = [pc EXCEPT ![t] = "read_cn"]
    /\ UNCHANGED <<phase, error, args, calls, last, naccess, prop, lcn, lval>>
    /\ UNCHANGED <<extvars, stepvars>>

\* line 242
ReadCn(t) ==
    /\ pc[t] = "read_cn"
    /\ lcn' = [lcn EXCEPT ![t] = GetAttr(self, "cn")]
    /\ pc' = [pc EXCEPT ![t] = "read_cd"]
    /\ UNCHANGED <<phase, error, args, self, calls, last, naccess, prop, lval>>
    /\ UNCHANGED <<extvars, stepvars>>

\* line 246 and the rest of lines 215-217 / 224-226
ReadCd(t) ==
    /\ pc[t] = "read_cd"
    /\ lval' = [lval EXCEPT ![t] =
                  return(prop[t], SetAttr(self, "cn", lcn[t]))]
    /\ calls' = AddCalls(calls, RunOf(prop[t]))
    /\ pc' = [pc EXCEPT ![t] = "setattr"]
    /\ UNCHANGED <<phase, error, args, self, last, naccess, prop, lcn>>
    /\ UNCHANGED <<extvars, stepvars>>

\* fn(self) of etw, eto_fs1, eto_fs2 and pet_hargreaves
Compute(t) ==
    /\ pc[t] = "fn"
    /\ lval' = [lval EXCEPT ![t] = fn(prop[t], self).ret]
    /\ calls' = AddCalls(calls, RunOf(prop[t]))
    /\ pc' = [pc EXCEPT ![t] = "setattr"]
    /\ UNCHANGED <<phase, error, args, self, last, naccess, prop, lcn>>
    /\ UNCHANGED <<extvars, stepvars>>

\* line 27
Store(t) ==
    /\ pc[t] = "setattr"
    /\ self' = SetAttr(self, attr_name(prop[t]), lval[t])
    /\ pc' = [pc EXCEPT ![t] = "getattr"]
    /\ UNCHANGED <<phase, error, args, calls, last, naccess, prop, lcn, lval>>
    /\ UNCHANGED <<extvars, stepvars>>

\* line 28
Return(t) ==
    /\ pc[t] = "getattr"
    /\ last' = [op |-> prop[t], surface |-> None,
                ret |-> GetAttr(self, attr_name(prop[t])), error |-> "none",
                computed |-> lval[t] # NoneNode]
    /\ pc' = [pc EXCEPT ![t] = "idle"]
    /\ lcn' = [lcn EXCEPT ![t] = NoneNode]
    /\ lval' = [lval EXCEPT ![t] = NoneNode]
    /\ UNCHANGED <<phase, error, args, self, calls, naccess, prop>>
    /\ UNCHANGED <<extvars, stepvars>>

NextThreads ==
    \/ Construct
    \/ \E t \in Threads : Begin(t)
    \/ \E t \in Threads : Check(t)
    \/ \E t \in Threads : SetCn(t)
    \/ \E t \in Threads : SetCd(t)
    \/ \E t \in Threads : ReadCn(t)
    \/ \E t \in Threads : ReadCd(t)
    \/ \E t \in Threads : Compute(t)
    \/ \E t \in Threads : Store(t)
    \/ \E t \in Threads : Return(t)

SpecThreads == Init /\ [][NextThreads]_vars

(***************************************************************************)
(* The constructor run one statement at a time                             *)
(***************************************************************************)
\* lines 104-113: the two checks that precede every assignment.
BuildStart ==
    /\ build.pc = 0
    /\ \E method \in Methods, rso_type \in RsoTypes, rso \in RsoArgs :
         LET a  == [method |-> method, rso_type |-> rso_type, rso |-> rso]
             ok == method_valid(method) /\ rso_type_valid(rso_type)
         IN  build' = [pc    |-> IF ok THEN 1 ELSE -1,
                       args  |-> a,
                       self  |-> NoAttrs,
                       error |-> IF ok THEN "none" ELSE "ValueError",
                       log   |-> <<>>]
    /\ UNCHANGED <<stepvars, enginevars, threadvars, other, adp, drv>>

\* The next assignment of lines 117-188.
BuildStep ==
    /\ build.pc \in 1..Len(StmtOrder)
    /\ LET id    == StmtOrder[build.pc]
           a     == build.args
           reads == StmtReads(id, a.method, a.rso_type, a.rso)
           miss  == reads \ DOMAIN build.self
       IN  IF miss # {}
           THEN build' = [build EXCEPT !.pc = -1, !.error = "AttributeError"]
           ELSE build' =
                  [build EXCEPT
                     !.pc   = @ + 1,
                     !.self = SetAttr(@, StmtTarget(id),
                                StmtValue(id, build.self, Inputs, a.method,
                                          a.rso_type, a.rso)),
                     !.log  = Append(@, [id |-> id, reads |-> reads])]
    /\ UNCHANGED <<stepvars, enginevars, threadvars, other, adp, drv>>

NextInit ==
    \/ BuildStart
    \/ BuildStep

SpecInit == Init /\ [][NextInit]_vars

(***************************************************************************)
(* Two engine instances.  `self` is accessed by thread 1, one attribute    *)
(* access at a time as above; `other` is a second Daily object that is     *)
(* constructed and read while thread 1 may be in the middle of an access.  *)
(***************************************************************************)
\* Variant of memo_owner: one memo shared by all instances.
memo_owner_shared(i) == 1

\* lines 26-28: hasattr, setattr and getattr are applied to the instance the
\* property was read on (1 is `self`, 2 is `other`).
memo_owner(i) == i

TwoMethods == {<<"a","s","c","e">>, <<"R","e","f","E","T">>, <<"x">>}

\* Construction of the first instance, from the configurations of TwoMethods.
ConstructFirst ==
    /\ phase = "new"
    /\ \E method \in TwoMethods :
         LET r == Daily__init__(Inputs, method, None, None)
         IN  /\ args' = [method |-> method, rso_type |-> None, rso |-> None]
             /\ error' = r.error
             /\ phase' = IF r.error = "none" THEN "constructed" ELSE "failed"
             /\ self' = r.self
             /\ calls' = r.calls
    /\ UNCHANGED <<last, naccess, threadvars>>
    /\ UNCHANGED <<extvars, stepvars>>

ConstructOther ==
    /\ other.phase = "new"
    /\ \E method \in TwoMethods :
         LET r == Daily__init__(Inputs, method, None, None)
         IN  other' = [phase |-> IF r.error = "none" THEN "constructed"
                                 ELSE "failed",
                       args  |-> [method |-> method, rso_type |-> None,
                                  rso |-> None],
                       self  |-> r.self,
                       n     |-> 0]
    /\ UNCHANGED <<stepvars, enginevars, threadvars, build, adp, drv>>

AccessOther ==
    /\ other.phase = "constructed"
    /\ other.n < MaxOtherAccesses
    /\ \E p \in LazyNames :
         LET r == lazy_property(p, other.self)
         IN  IF memo_owner(2) = 2
             THEN /\ other' = [other EXCEPT !.self = r.self, !.n = @ + 1]
                  /\ self' = self
             ELSE /\ other' = [other EXCEPT !.n = @ + 1]
                  /\ self' = r.self
    /\ UNCHANGED <<phase, error, args, calls, last, naccess, threadvars,
                   build, adp, drv, stepvars>>

NextTwo ==
    \/ ConstructFirst
    \/ ConstructOther
    \/ AccessOther
    \/ Begin(1)
    \/ Check(1)
    \/ SetCn(1)
    \/ SetCd(1)
    \/ ReadCn(1)
    \/ ReadCd(1)
    \/ Compute(1)
    \/ Store(1)
    \/ Return(1)

SpecTwo == Init /\ [][NextTwo]_vars

(***************************************************************************)
(* Dates.  Times are whole hours since 1970-01-01T00:00 UTC, the epoch of  *)
(* system:time_start; ee.Date.getRelative("day", "year") is the 0-based    *)
(* day within the UTC calendar year.                                       *)
(***************************************************************************)
IsLeap(y) == (y % 4 = 0 /\ y % 100 # 0) \/ y % 400 = 0

DaysInYear(y) == IF IsLeap(y) THEN 366 ELSE 365

RECURSIVE DayInYear(_, _)
DayInYear(d, y) ==
    IF d < DaysInYear(y) THEN d ELSE DayInYear(d - DaysInYear(y), y + 1)

getRelative_day_year(t) == DayInYear(t \div 24, 1970)

\* Variant of doy_of: the relative day used as it is, without .add(1).
doy_of_zero_based(t) == getRelative_day_year(t)

\* ee.Number(date.getRelative("day", "year")).add(1).double()
doy_of(t) == getRelative_day_year(t) + 1

Number(n) == Node("Number", <<Num(ToString(n))>>)

(***************************************************************************)
(* Source adapters, lines 387-1203                                         *)
(***************************************************************************)
UpperChar(c) ==
    IF \E i \in 1..Len(LowerCase) : LowerCase[i] = c
    THEN UpperCase[CHOOSE i \in 1..Len(LowerCase) : LowerCase[i] = c]
    ELSE c

Upper(s) == [i \in 1..Len(s) |-> UpperChar(s[i])]

\* Python values of rtma's rs argument: objects, None and strings.
EeImage  == <<"<ee.Image>">>
EeNumber == <<"<ee.Number>">>
EeImageCollection == <<"<ee.ImageCollection>">>
GRIDMET == <<"G","R","I","D","M","E","T">>
NLDAS   == <<"N","L","D","A","S">>
RsArgs ==
    { None, EeImage, EeNumber, EeImageCollection, GRIDMET,
      <<"g","r","i","d","m","e","t">>, NLDAS, <<"N","l","d","a","s">>,
      <<"E","R","A","5">> }

\* What the caller passes for zw, elev and lat: None or a value of its own.
ZwArgs   == { NoneNode, Leaf("zw_arg") }
ElevArgs == { NoneNode, Leaf("elev_arg") }
LatArgs  == { NoneNode, Leaf("lat_arg") }
AdapterMethods == { asce, <<"R","e","f","E","T">>, <<"b","o","g","u","s">> }

\* system:time_start of the input image, or of the first image of the input
\* collection: 1 Jan 2019, 1 Jan 2019 23h, 31 Dec 2019 12h, 1 Jan 2020,
\* 29 Feb 2020 6h, 31 Dec 2020 21h, 1 Jan 2021.
ImageTimes ==
    { 17897 * 24, 17897 * 24 + 23, 18261 * 24 + 12, 18262 * 24,
      18321 * 24 + 6, 18627 * 24 + 21, 18628 * 24 }

Input == Leaf("input")
Select(c, band) == Node("select", <<c, Leaf(band)>>)
Subtract(x, text) == Node("subtract", <<x, Num(text)>>)
Max(x)  == Node("max", <<x>>)
Min(x)  == Node("min", <<x>>)
Mean(x) == Node("mean", <<x>>)
Sum(x)  == Node("sum", <<x>>)
First(x) == Node("first", <<x>>)
Image(x) == Node("Image", <<x>>)
ImageCollection(id) == Node("ee.ImageCollection", <<Leaf(id)>>)
FilterDate(c, from, to) ==
    Node("filterDate", <<c, Num(ToString(from)), Num(ToString(to))>>)

\* Variant of zw_default: the drivers' measurement height used by adapters.
zw_default_two == Node("Number", <<Num("2")>>)

\* `if zw is None: zw = ee.Number(10)`, the same in all eight adapters
\* (lines 428, 513, 612, 727, 867, 963, 1059, 1155).
zw_default == Node("Number", <<Num("10")>>)

GridmetElevation ==
    Leaf("projects/earthengine-legacy/assets/projects/climate-engine/gridmet/elevation")
RtmaElevation ==
    Leaf("projects/earthengine-legacy/assets/projects/climate-engine/rtma/elevation")
PixelLatitude == Select(Leaf("ee.Image.pixelLonLat()"), "latitude")
Cfsv2Reproject(x) == Node("reproject", <<x, Leaf("EPSG:4326"), Leaf("cfsv2_transform")>>)
Rename(x, name) == Node("rename", <<x, Leaf(name)>>)

\* `if elev is None: elev = ...`
elev_default(name) ==
    CASE name = "gridmet" -> Rename(Image(GridmetElevation), "elevation")
      [] name = "maca"    -> Image(GridmetElevation)
      [] name = "nldas"   ->
            Image(Leaf("projects/openet/assets/meteorology/nldas/ancillary/elevation"))
      [] name = "cfsv2"   -> Cfsv2Reproject(Image(Leaf("CGIAR/SRTM90_V4")))
      [] name = "rtma"    -> Rename(Image(RtmaElevation), "elevation")
      [] name = "era5"    ->
            Image(Leaf("projects/openet/assets/meteorology/era5/ancillary/elevation"))
      [] OTHER ->
            Image(Leaf("projects/openet/assets/meteorology/era5land/ancillary/elevation"))

\* `if lat is None: lat = ...`
lat_default(name) ==
    CASE name = "gridmet" ->
            Rename(Add(Multiply(Image(GridmetElevation), Num("0")), PixelLatitude),
                   "latitude")
      [] name = "maca"    ->
            Add(Multiply(Image(GridmetElevation), Num("0")), PixelLatitude)
      [] name = "nldas"   ->
            Image(Leaf("projects/openet/assets/meteorology/nldas/ancillary/latitude"))
      [] name = "cfsv2"   -> Cfsv2Reproject(PixelLatitude)
      [] name = "rtma"    ->
            Rename(Add(Multiply(Image(RtmaElevation), Num("0")), PixelLatitude),
                   "latitude")
      [] name = "era5"    ->
            Image(Leaf("projects/openet/assets/meteorology/era5/ancillary/latitude"))
      [] OTHER ->
            Image(Leaf("projects/openet/assets/meteorology/era5land/ancillary/latitude"))

\* `if x is None: x = <default>`
OrDefault(arg, dflt) == IF arg = NoneNode THEN dflt ELSE arg

\* calcs._actual_vapor_pressure(q=..., pair=calcs._air_pressure(elev, method))
ActualVaporPressure(q, elev, method) ==
    Node("_actual_vapor_pressure",
         <<q, Node("_air_pressure", <<elev, Str(method)>>)>>)

\* wind_magnitude of one image, and of every image of a collection.
wind_magnitude(img, u, v) ==
    Node("sqrt", <<Add(Pow(Image(Select(img, u)), Num("2")),
                       Pow(Image(Select(img, v)), Num("2")))>>)

\* The magnitude of the mean components, which the source does not compute.
MapWindMagnitude_of_mean_components(coll, u, v) ==
    Node("sqrt", <<Add(Pow(Mean(Select(coll, u)), Num("2")),
                       Pow(Mean(Select(coll, v)), Num("2")))>>)

MapWindMagnitude(coll, u, v) ==
    Image(Mean(Node("map", <<coll, wind_magnitude(Leaf("img"), u, v)>>)))

\* Variant of rtma_rs: an omitted rs is taken from NLDAS.
rtma_rs_none_nldas(rs, start) ==
    IF rs = EeImage THEN [error |-> "none", rs |-> Leaf("rs_arg")]
    ELSE IF rs = EeNumber
    THEN [error |-> "none", rs |-> Node("constant", <<Leaf("rs_arg")>>)]
    ELSE IF rs = EeImageCollection
    THEN [error |-> "AttributeError", rs |-> NoneNode]
    ELSE IF rs # None /\ Upper(rs) = GRIDMET
    THEN [error |-> "none",
          rs |-> Multiply(Image(First(Select(
                     FilterDate(ImageCollection("IDAHO_EPSCOR/GRIDMET"),
                                start, start + 24), "srad"))),
                     Num("0.0864"))]
    ELSE IF rs = None \/ Upper(rs) = NLDAS
    THEN [error |-> "none",
          rs |-> Multiply(Image(Sum(Select(
                     FilterDate(ImageCollection("NASA/NLDAS/FORA0125_H002"),
                                start, start + 24), "shortwave_radiation"))),
                     Num("0.0036"))]
    ELSE [error |-> "ValueError", rs |-> NoneNode]

\* lines 840-861: parsing of rtma's rs argument.  Anything that is neither
\* an image, a number nor None is sent .upper(), which only a str has.
rtma_rs(rs, start) ==
    IF rs = EeImage THEN [error |-> "none", rs |-> Leaf("rs_arg")]
    ELSE IF rs = EeNumber
    THEN [error |-> "none", rs |-> Node("constant", <<Leaf("rs_arg")>>)]
    ELSE IF rs = EeImageCollection
    THEN [error |-> "AttributeError", rs |-> NoneNode]
    ELSE IF rs = None \/ Upper(rs) = GRIDMET
    THEN [error |-> "none",
          rs |-> Multiply(Image(First(Select(
                     FilterDate(ImageCollection("IDAHO_EPSCOR/GRIDMET"),
                                start, start + 24), "srad"))),
                     Num("0.0864"))]
    ELSE IF Upper(rs) = NLDAS
    THEN [error |-> "none",
          rs |-> Multiply(Image(Sum(Select(
                     FilterDate(ImageCollection("NASA/NLDAS/FORA0125_H002"),
                                start, start + 24), "shortwave_radiation"))),
                     Num("0.0036"))]
    ELSE [error |-> "ValueError", rs |-> NoneNode]

\* The keyword arguments each adapter hands to cls(...), given the caller's
\* zw, elev and lat (None when omitted), method, and the time stamp t of the
\* input image or of the first image of the input collection.
\* lines 423-466
gridmet(zw, elev, lat, method, t) ==
    LET e == OrDefault(elev, elev_default("gridmet"))
    IN  [ tmax |-> Subtract(Select(Input, "tmmx"), "273.15"),
          tmin |-> Subtract(Select(Input, "tmmn"), "273.15"),
          ea   |-> ActualVaporPressure(Select(Input, "sph"), e, method),
          rs   |-> Multiply(Select(Input, "srad"), Num("0.0864")),
          uz   |-> Select(Input, "vs"),
          zw   |-> OrDefault(zw, zw_default),
          elev |-> e,
          lat  |-> OrDefault(lat, lat_default("gridmet")),
          doy  |-> Number(doy_of(t)) ]

\* lines 505-563
maca(zw, elev, lat, method, t) ==
    LET e == OrDefault(elev, elev_default("maca"))
    IN  [ tmax |-> Subtract(Select(Input, "tasmax"), "273.15"),
          tmin |-> Subtract(Select(Input, "tasmin"), "273.15"),
          ea   |-> ActualVaporPressure(Select(Input, "huss"), e, method),
          rs   |-> Multiply(Select(Input, "rsds"), Num("0.0864")),
          uz   |-> Select(Image(Rename(wind_magnitude(Input, "uas", "vas"),
                                       "uz")), "uz"),
          zw   |-> OrDefault(zw, zw_default),
          elev |-> e,
          lat  |-> OrDefault(lat, lat_default("maca")),
          doy  |-> Number(doy_of(t)) ]

\* lines 606-664
nldas(zw, elev, lat, method, t) ==
    LET e == OrDefault(elev, elev_default("nldas"))
    IN  [ tmax |-> Max(Select(Input, "temperature")),
          tmin |-> Min(Select(Input, "temperature")),
          ea   |-> ActualVaporPressure(Mean(Select(Input, "specific_humidity")),
                                       e, method),
          rs   |-> Multiply(Sum(Select(Input, "shortwave_radiation")),
                            Num("0.0036")),
          uz   |-> MapWindMagnitude(Input, "wind_u", "wind_v"),
          zw   |-> OrDefault(zw, zw_default),
          elev |-> e,
          lat  |-> OrDefault(lat, lat_default("nldas")),
          doy  |-> Number(doy_of(t)) ]

\* lines 709-787
cfsv2(zw, elev, lat, method, t) ==
    LET e == OrDefault(elev, elev_default("cfsv2"))
    IN  [ tmax |-> Subtract(Max(Select(Input,
                     "Maximum_temperature_height_above_ground_6_Hour_Interval")),
                     "273.15"),
          tmin |-> Subtract(Min(Select(Input,
                     "Minimum_temperature_height_above_ground_6_Hour_Interval")),
                     "273.15"),
          ea   |-> ActualVaporPressure(
                     Mean(Select(Input, "Specific_humidity_height_above_ground")),
                     e, method),
          rs   |-> Multiply(Mean(Select(Input,
                     "Downward_Short-Wave_Radiation_Flux_surface_6_Hour_Average")),
                     Num("0.0864")),
          uz   |-> MapWindMagnitude(Input,
                     "u-component_of_wind_height_above_ground",
                     "v-component_of_wind_height_above_ground"),
          zw   |-> OrDefault(zw, zw_default),
          elev |-> e,
          lat  |-> OrDefault(lat, lat_default("cfsv2")),
          doy  |-> Number(doy_of(t)) ]

\* lines 863-912, after rs has been parsed.
rtma(rs, zw, elev, lat, method, t) ==
    LET e == OrDefault(elev, elev_default("rtma"))
    IN  [ tmax |-> Max(Select(Input, "TMP")),
          tmin |-> Min(Select(Input, "TMP")),
          ea   |-> ActualVaporPressure(Mean(Select(Input, "SPFH")), e, method),
          rs   |-> rs,
          uz   |-> Mean(Select(Input, "WIND")),
          zw   |-> OrDefault(zw, zw_default),
          elev |-> e,
          lat  |-> OrDefault(lat, lat_default("rtma")),
          doy  |-> Number(doy_of(t)) ]

\* The three ERA5 adapters differ in their default assets and in the band
\* solar radiation is summed from.
\* era5_family with the Kelvin offset left off tmin.
era5_family_tmin_kelvin(name, band, zw, elev, lat, t) ==
    [ tmax |-> Subtract(Max(Select(Input, "temperature_2m")), "273.15"),
      tmin |-> Min(Select(Input, "temperature_2m")),
      ea   |-> Node("_sat_vapor_pressure",
                    <<Subtract(Mean(Select(Input, "dewpoint_temperature_2m")),
                               "273.15")>>),
      rs   |-> Divide(Sum(Select(Input, band)), Num("1000000")),
      uz   |-> MapWindMagnitude(Input, "u_component_of_wind_10m",
                                "v_component_of_wind_10m"),
      zw   |-> OrDefault(zw, zw_default),
      elev |-> OrDefault(elev, elev_default(name)),
      lat  |-> OrDefault(lat, lat_default(name)),
      doy  |-> Number(doy_of(t)) ]

era5_family(name, band, zw, elev, lat, t) ==
    [ tmax |-> Subtract(Max(Select(Input, "temperature_2m")), "273.15"),
      tmin |-> Subtract(Min(Select(Input, "temperature_2m")), "273.15"),
      ea   |-> Node("_sat_vapor_pressure",
                    <<Subtract(Mean(Select(Input, "dewpoint_temperature_2m")),
                               "273.15")>>),
      rs   |-> Divide(Sum(Select(Input, band)), Num("1000000")),
      uz   |-> MapWindMagnitude(Input, "u_component_of_wind_10m",
                                "v_component_of_wind_10m"),
      zw   |-> OrDefault(zw, zw_default),
      elev |-> OrDefault(elev, elev_default(name)),
      lat  |-> OrDefault(lat, lat_default(name)),
      doy  |-> Number(doy_of(t)) ]

\* lines 958-1008
era5(zw, elev, lat, method, t) ==
    era5_family("era5", "surface_solar_radiation_downwards", zw, elev, lat, t)

\* lines 1054-1104
era5_land(zw, elev, lat, method, t) ==
    era5_family("era5_land", "surface_solar_radiation_downwards_hourly",
                zw, elev, lat, t)

\* lines 1150-1200
era5_land_daily(zw, elev, lat, method, t) ==
    era5_family("era5_land_daily", "surface_solar_radiation_downwards_sum",
                zw, elev, lat, t)

\* One adapter call: the adapter builds the keyword arguments and calls
\* cls(...), the Daily constructor, with rso_type left at its default.
Adapted(name, a, in) ==
    LET r == Daily__init__(in, a.method, None, None)
    IN  /\ adp' = [name |-> name, a |-> a, in |-> in, error |-> r.error,
                   self |-> r.self]
        /\ UNCHANGED <<stepvars, enginevars, threadvars, build, other, drv>>

\* A run of the model makes one adapter call or one driver run.
CanAdapt == adp.name = "none" /\ drv.pc = "new"

AdapterArgs(rs, zw, elev, lat, method, t) ==
    [rs |-> rs, zw |-> zw, elev |-> elev, lat |-> lat, method |-> method,
     t |-> t]

Gridmet ==
    /\ CanAdapt
    /\ \E zw \in ZwArgs, elev \in ElevArgs, lat \in LatArgs,
          method \in AdapterMethods, t \in ImageTimes :
         Adapted("gridmet", AdapterArgs(None, zw, elev, lat, method, t),
                 gridmet(zw, elev, lat, method, t))

Maca ==
    /\ CanAdapt
    /\ \E zw \in ZwArgs, elev \in ElevArgs, lat \in LatArgs,
          method \in AdapterMethods, t \in ImageTimes :
         Adapted("maca", AdapterArgs(None, zw, elev, lat, method, t),
                 maca(zw, elev, lat, method, t))

Nldas ==
    /\ CanAdapt
    /\ \E zw \in ZwArgs, elev \in ElevArgs, lat \in LatArgs,
          method \in AdapterMethods, t \in ImageTimes :
         Adapted("nldas", AdapterArgs(None, zw, elev, lat, method, t),
                 nldas(zw, elev, lat, method, t))

Cfsv2 ==
    /\ CanAdapt
    /\ \E zw \in ZwArgs, elev \in ElevArgs, lat \in LatArgs,
          method \in AdapterMethods, t \in ImageTimes :
         Adapted("cfsv2", AdapterArgs(None, zw, elev, lat, method, t),
                 cfsv2(zw, elev, lat, method, t))

Rtma ==
    /\ CanAdapt
    /\ \E rs \in RsArgs, zw \in ZwArgs, elev \in ElevArgs, lat \in LatArgs,
          method \in AdapterMethods, t \in ImageTimes :
         LET a == AdapterArgs(rs, zw, elev, lat, method, t)
             p == rtma_rs(rs, t)
         IN  IF p.error # "none"
             THEN /\ adp' = [name |-> "rtma", a |-> a, in |-> NoIn,
                             error |-> p.error, self |-> NoAttrs]
                  /\ UNCHANGED <<stepvars, enginevars, threadvars, build, other, drv>>
             ELSE Adapted("rtma", a, rtma(p.rs, zw, elev, lat, method, t))

Era5 ==
    /\ CanAdapt
    /\ \E zw \in ZwArgs, elev \in ElevArgs, lat \in LatArgs,
          method \in AdapterMethods, t \in ImageTimes :
         Adapted("era5", AdapterArgs(None, zw, elev, lat, method, t),
                 era5(zw, elev, lat, method, t))

Era5Land ==
    /\ CanAdapt
    /\ \E zw \in ZwArgs, elev \in ElevArgs, lat \in LatArgs,
          method \in AdapterMethods, t \in ImageTimes :
         Adapted("era5_land", AdapterArgs(None, zw, elev, lat, method, t),
                 era5_land(zw, elev, lat, method, t))

Era5LandDaily ==
    /\ CanAdapt
    /\ \E zw \in ZwArgs, elev \in ElevArgs, lat \in LatArgs,
          method \in AdapterMethods, t \in ImageTimes :
         Adapted("era5_land_daily", AdapterArgs(None, zw, elev, lat, method, t),
                 era5_land_daily(zw, elev, lat, method, t))


(***************************************************************************)
(* Time-series drivers GFS_ET0 and NASA_ET0, lines 1206-1510               *)
(***************************************************************************)
\* lines 1259 and 1411
collection_name(name) ==
    IF name = "GFS" THEN "NOAA/GFS0P25" ELSE "NASA/GLDAS/V021/NOAH/G025/T3H"

\* Hours between the time stamps of the source: GFS is issued every six
\* hours (line 1208), GLDAS T3H is three-hourly (line 1411).
SampleStep(name) == IF name = "GFS" THEN 6 ELSE 3

\* forecast_hours carried by the images of one time stamp.
ForecastHours(name) == IF name = "GFS" THEN {0, 6} ELSE {0}

\* The images of the source with start <= system:time_start < end
\* (filterDate, lines 1260-1264 and 1412-1416).
Samples(name, start, end) ==
    { [t |-> t, fh |-> f] :
        t \in { x \in start..(end - 1) : x % SampleStep(name) = 0 },
        f \in ForecastHours(name) }

\* The run's inputs: start_date, the length of the range in hours, method
\* and the offset of the machine's local time from UTC.
DriverStarts ==
    { 17897 * 24, 17897 * 24 + 21, 18260 * 24 + 3, 18626 * 24 }
DriverLengths == { 6 * k : k \in 0..(4 * MaxDays) }
DriverMethods == { asce, <<"b","o","g","u","s">> }
TzOffsets == { -5, 0, 2 }

\* datetime.datetime.fromtimestamp(ms / 1000): naive local time.
fromtimestamp(t, tz) == t + tz

\* timedelta.days
timedelta_days(h) == h \div 24

\* line 1287 / 1438
difference_in_days(date_first_image, date_last_image) ==
    timedelta_days(date_last_image - date_first_image) + 1

\* Hours the day window is long: advance(6, "hour") at line 1324,
\* advance(1, "day") at line 1473.
WindowHours(name) == IF name = "GFS" THEN 6 ELSE 24

\* lines 1323-1325 / 1472-1474: the images of the day window; ee.Date(day)
\* reads the naive local time as UTC.
WindowSamples(name, coll, day) ==
    { s \in coll :
        /\ day <= s.t
        /\ s.t < day + WindowHours(name)
        /\ name = "GFS" => s.fh \in {6, 12, 18, 24} }

collection_day(name, start, end, day) ==
    LET c == FilterDate(ImageCollection(collection_name(name)), start, end)
        w == FilterDate(c, day, day + WindowHours(name))
    IN  IF name = "GFS" THEN Node("filter_inList_forecast_hours", <<w>>)
        ELSE w

\* `if zw is None: zw = ee.Number(2)`, lines 1290-1291 / 1441-1442
driver_zw_default == Node("Number", <<Num("2")>>)

\* lines 1327-1360 / 1476-1496: the keyword arguments of Daily(...).
driver_inputs(name, cd, zw, method, day) ==
    LET elev == elev_default("era5_land")
        lat  == lat_default("era5_land")
    IN  IF name = "GFS"
        THEN [ tmax |-> Max(Select(cd, "temperature_2m_above_ground")),
               tmin |-> Min(Select(cd, "temperature_2m_above_ground")),
               ea   |-> ActualVaporPressure(
                          Mean(Select(cd, "specific_humidity_2m_above_ground")),
                          elev, method),
               rs   |-> Multiply(Mean(Select(cd,
                          "downward_shortwave_radiation_flux")), Num("0.0864")),
               uz   |-> Mean(Node("map", <<cd,
                          Rename(wind_magnitude(Leaf("img"),
                              "u_component_of_wind_10m_above_ground",
                              "v_component_of_wind_10m_above_ground"),
                              "wind")>>)),
               zw   |-> OrDefault(zw, driver_zw_default),
               elev |-> elev,
               lat  |-> lat,
               doy  |-> Number(doy_of(day)) ]
        ELSE [ tmax |-> Subtract(Max(Select(cd, "Tair_f_inst")), "273.15"),
               tmin |-> Subtract(Min(Select(cd, "Tair_f_inst")), "273.15"),
               ea   |-> ActualVaporPressure(Mean(Select(cd, "Qair_f_inst")),
                                            elev, method),
               rs   |-> Multiply(Mean(Select(cd, "Swnet_tavg")), Num("0.0864")),
               uz   |-> Mean(Select(cd, "Wind_f_inst")),
               zw   |-> OrDefault(zw, driver_zw_default),
               elev |-> elev,
               lat  |-> lat,
               doy  |-> Number(doy_of(day)) ]

\* Variant of daily_et: the image as the engine tagged it.
daily_et_engine_tag(eto_img, day) == eto_img

\* line 1367 / 1503: self.eto.set("system:time_start", day_gee.millis())
daily_et(eto_img, day) ==
    Node("set_system:time_start", <<eto_img, Num(ToString(day))>>)

\* line 1371 / 1507: et_collection.merge(daily_et)
merge(et_collection, rec) == Append(et_collection, rec)

MinOf(S) == CHOOSE x \in S : \A y \in S : x <= y
MaxOf(S) == CHOOSE x \in S : \A y \in S : y <= x

\* __init__ and calculate_eto_daily up to the loop, lines 1239-1316 /
\* 1391-1465.  The first and last time stamps are fetched with getInfo(),
\* which fails on an empty collection.
\* The head of calculate_eto_daily, up to the loop over the days.
driver_begin(name, cfg) ==
    LET coll == Samples(name, cfg.start, cfg.end)
        ts   == { x.t : x \in coll }
    IN  IF coll = {}
        THEN [NoDriver EXCEPT !.pc = "raised", !.name = name, !.cfg = cfg,
                              !.error = "EEException"]
        ELSE LET date_first_image == fromtimestamp(MinOf(ts), cfg.tz)
                 date_last_image  == fromtimestamp(MaxOf(ts), cfg.tz)
             IN  [NoDriver EXCEPT
                    !.pc = "loop", !.name = name, !.cfg = cfg,
                    !.first = date_first_image,
                    !.last = date_last_image,
                    !.days = difference_in_days(date_first_image,
                                                date_last_image)]

\* The driver object is built with `method` and calculate_eto_daily is then
\* called with its own argument `call_method`.
DriverBegin(name) ==
    /\ drv.pc = "new"
    /\ adp.name = "none"
    /\ \E start \in DriverStarts, len \in DriverLengths,
          method \in DriverMethods, call_method \in DriverMethods,
          zw \in ZwArgs, tz \in TzOffsets :
         drv' = driver_begin(name, [start |-> start, end |-> start + len,
                                    method |-> method, zw |-> zw, tz |-> tz,
                                    call_method |-> call_method])
    /\ UNCHANGED <<stepvars, enginevars, threadvars, build, other, adp>>

GfsBegin == DriverBegin("GFS")

NasaBegin == DriverBegin("NASA")

\* One iteration of the loop, lines 1318-1371 / 1467-1507.  An exception
\* raised by Daily(...) leaves the method: nothing catches it.
\* The method the loop hands to the engine: self.method, the constructor's;
\* the argument `method` of calculate_eto_daily is not read.
engine_method_from_call(self_method, method) == method

engine_method(self_method, method) == self_method

\* One pass of the loop body, on the driver state d.
loop_day(d) ==
    LET day == d.first + 24 * d.day_index
        m   == engine_method(d.cfg.method, d.cfg.call_method)
        cd  == collection_day(d.name, d.cfg.start, d.cfg.end, day)
        in  == driver_inputs(d.name, cd, d.cfg.zw, m, day)
        r   == Daily__init__(in, m, None, None)
    IN  IF r.error # "none"
        THEN [d EXCEPT !.pc = "raised", !.error = r.error]
        ELSE LET e1  == lazy_property("eto", r.self)
                 e2  == lazy_property("etr", e1.self)
                 rec == [day_index |-> d.day_index,
                         day  |-> day,
                         doy  |-> e2.self["doy"],
                         samples |-> WindowSamples(d.name,
                             Samples(d.name, d.cfg.start, d.cfg.end), day),
                         img  |-> daily_et(e1.ret, day)]
             IN  [d EXCEPT !.records = merge(@, rec), !.day_index = @ + 1]

LoopDay ==
    /\ drv.pc = "loop"
    /\ drv.day_index < drv.days
    /\ drv' = loop_day(drv)
    /\ UNCHANGED <<stepvars, enginevars, threadvars, build, other, adp>>

\* line 1375 / 1510: return et_collection
DriverReturn ==
    /\ drv.pc = "loop"
    /\ drv.day_index = drv.days
    /\ drv' = [drv EXCEPT !.pc = "returned"]
    /\ UNCHANGED <<stepvars, enginevars, threadvars, build, other, adp>>

NextFeeds ==
    \/ Gridmet
    \/ Maca
    \/ Nldas
    \/ Cfsv2
    \/ Rtma
    \/ Era5
    \/ Era5Land
    \/ Era5LandDaily
    \/ GfsBegin
    \/ NasaBegin
    \/ LoopDay
    \/ DriverReturn

SpecFeeds == Init /\ [][NextFeeds]_vars

(***************************************************************************)
(* Numeric evaluation of the engine's formulas.  A value is an exact       *)
(* rational <<n, d>> in lowest terms with d > 0; the graph operations of   *)
(* the source (add, multiply, divide, pow(-1), max) are computed on it.    *)
(***************************************************************************)
RECURSIVE GCD(_, _)
GCD(a, b) == IF b = 0 THEN a ELSE GCD(b, a % b)

Abs(x) == IF x < 0 THEN -x ELSE x

Rat(n, d) ==
    LET g == GCD(Abs(n), Abs(d))
        s == IF d < 0 THEN -1 ELSE 1
    IN  <<(s * n) \div g, (s * d) \div g>>

RInt(n) == <<n, 1>>
RAdd(a, b) == Rat(a[1] * b[2] + b[1] * a[2], a[2] * b[2])
RSub(a, b) == Rat(a[1] * b[2] - b[1] * a[2], a[2] * b[2])
RMul(a, b) == Rat(a[1] * b[1], a[2] * b[2])
RDiv(a, b) == Rat(a[1] * b[2], a[2] * b[1])
RLess(a, b) == a[1] * b[2] < b[1] * a[2]
RMax(a, b) == IF RLess(a, b) THEN b ELSE a

\* calcs._vpd(es, ea): the vapor pressure deficit, never negative.
_vpd(es, ea) == RMax(RSub(es, ea), RInt(0))

\* The derived quantities of one constructed instance, as numbers.
EtoEnvs ==
    [tmean    : {RInt(7), RInt(27)},
     u2       : {RInt(0), RInt(2)},
     psy      : {Rat(1, 15)},
     es_slope : {Rat(1, 10), Rat(1, 5)},
     rn       : {RInt(0), RInt(15)},
     es       : {RInt(2), RInt(3)},
     ea       : {RInt(1), RInt(3), RInt(4)}]

\* _etsz with the surface of eto (cn = 900, cd = 0.34), on numbers.
eto_value(e) ==
    LET vpd == _vpd(e.es, e.ea)
        cn  == RInt(900)
        cd  == Rat(34, 100)
        aero == RMul(RMul(RMul(RMul(RDiv(RInt(1), RAdd(e.tmean, RInt(273))),
                                    e.u2), vpd), cn), e.psy)
        rad  == RMul(RMul(e.es_slope, e.rn), Rat(408, 1000))
        den  == RAdd(RMul(RAdd(RMul(e.u2, cd), RInt(1)), e.psy), e.es_slope)
    IN  RDiv(RAdd(aero, rad), den)

\* eto_fs1: "(delta / (delta + psy * (1 + 0.34 * u2))) * (0.408 * rn)".
eto_fs1_value(e) ==
    RMul(RDiv(e.es_slope,
              RAdd(e.es_slope,
                   RMul(e.psy, RAdd(RInt(1), RMul(Rat(34, 100), e.u2))))),
         RMul(Rat(408, 1000), e.rn))

\* eto_fs2: TT = "(900 / (t + 273)) * u2",
\* PT = "psy / (slope + psy * (1 + 0.34 * u2))", result "PT * TT * (es-ea)".
eto_fs2_value(e) ==
    LET TT == RMul(RDiv(RInt(900), RAdd(e.tmean, RInt(273))), e.u2)
        PT == RDiv(e.psy,
                   RAdd(e.es_slope,
                        RMul(e.psy, RAdd(RInt(1), RMul(Rat(34, 100), e.u2)))))
    IN  RMul(RMul(PT, TT), RSub(e.es, e.ea))

\* One day's hourly shortwave samples [W m-2] of a collection, in time
\* order; a full day holds 24 of them, a day with gaps fewer.
ClearDay(h) == IF h \in 7..18 THEN 60 * (IF h < 13 THEN h - 6 ELSE 19 - h)
               ELSE 0

HourlyCollections ==
    {[h \in 1..(24 - k) |-> w] : k \in 0..MaxMissing, w \in {100, 250}}
      \cup {[h \in 1..(24 - k) |-> ClearDay(h)] : k \in 0..MaxMissing}

RECURSIVE SumSeq(_)
SumSeq(s) == IF s = <<>> THEN 0 ELSE Head(s) + SumSeq(Tail(s))

\* nldas (and rtma with rs = 'NLDAS'):
\* input_collection.select(['shortwave_radiation']).sum().multiply(0.0036)
nldas_rs_value(coll) == RMul(RInt(SumSeq(coll)), Rat(36, 10000))

NoEnv == [tmean |-> RInt(0), u2 |-> RInt(0), psy |-> RInt(0),
          es_slope |-> RInt(0), rn |-> RInt(0), es |-> RInt(0),
          ea |-> RInt(0)]

NumInputs ==
    {[op |-> "eto_in", env |-> e, coll |-> <<>>, eto |-> RInt(0),
      fs1 |-> RInt(0), fs2 |-> RInt(0), rs |-> RInt(0)] : e \in EtoEnvs}
      \cup
    {[op |-> "rs_in", env |-> NoEnv, coll |-> c, eto |-> RInt(0),
      fs1 |-> RInt(0), fs2 |-> RInt(0), rs |-> RInt(0)]
        : c \in HourlyCollections}

InitNumeric ==
    /\ InitEngine
    /\ num \in NumInputs
    /\ meteo = NoMeteo
    /\ precip = NoPrecip
    /\ sebal = NoSebal

\* The accessors eto, eto_fs1 and eto_fs2 of one instance, evaluated.
EvalEto ==
    /\ num.op = "eto_in"
    /\ num' = [num EXCEPT !.op = "eto",
                          !.eto = eto_value(num.env),
                          !.fs1 = eto_fs1_value(num.env),
                          !.fs2 = eto_fs2_value(num.env)]
    /\ UNCHANGED <<enginevars, threadvars, extvars, meteo, precip, sebal>>

\* The rs handed to the engine by nldas, evaluated.
EvalRs ==
    /\ num.op = "rs_in"
    /\ num' = [num EXCEPT !.op = "rs", !.rs = nldas_rs_value(num.coll)]
    /\ UNCHANGED <<enginevars, threadvars, extvars, meteo, precip, sebal>>

NextNumeric ==
    \/ EvalEto
    \/ EvalRs

SpecNumeric == InitNumeric /\ [][NextNumeric]_vars

(***************************************************************************)
(* SEBAL time series: retrieveETandMeteo, the function TimeSeries maps     *)
(* over the Landsat images, taken statement by statement.  A statement is  *)
(* the line it starts on, the name it binds, the names it reads, the       *)
(* branch it sits in and whether it lies inside the try block.             *)
(***************************************************************************)
Stmts ==
    << [line |-> 90, target |-> "image", kind |-> "assign",
        when |-> "always", where |-> "body",
        reads |-> {"ee", "image"}],
       [line |-> 93, target |-> "_index", kind |-> "assign",
        when |-> "always", where |-> "body",
        reads |-> {"image"}],
       [line |-> 94, target |-> "cloud_cover", kind |-> "assign",
        when |-> "always", where |-> "body",
        reads |-> {"image"}],
       [line |-> 95, target |-> "LANDSAT_ID", kind |-> "assign",
        when |-> "always", where |-> "body",
        reads |-> {"image"}],
       [line |-> 96, target |-> "landsat_version", kind |-> "assign",
        when |-> "always", where |-> "body",
        reads |-> {"ee", "image"}],
       [line |-> 97, target |-> "zenith_angle", kind |-> "assign",
        when |-> "always", where |-> "body",
        reads |-> {"image"}],
       [line |-> 98, target |-> "sun_elevation", kind |-> "assign",
        when |-> "always", where |-> "body",
        reads |-> {"image"}],
       [line |-> 99, target |-> "azimuth_angle", kind |-> "assign",
        when |-> "always", where |-> "body",
        reads |-> {"image"}],
       [line |-> 100, target |-> "time_start", kind |-> "assign",
        when |-> "always", where |-> "body",
        reads |-> {"image"}],
       [line |-> 101, target |-> "_date", kind |-> "assign",
        when |-> "always", where |-> "body",
        reads |-> {"ee", "time_start"}],
       [line |-> 102, target |-> "_year", kind |-> "assign",
        when |-> "always", where |-> "body",
        reads |-> {"_date", "ee"}],
       [line |-> 103, target |-> "_month", kind |-> "assign",
        when |-> "always", where |-> "body",
        reads |-> {"_date", "ee"}],
       [line |-> 104, target |-> "_day", kind |-> "assign",
        when |-> "always", where |-> "body",
        reads |-> {"_date", "ee"}],
       [line |-> 105, target |-> "_hour", kind |-> "assign",
        when |-> "always", where |-> "body",
        reads |-> {"_date", "ee"}],
       [line |-> 106, target |-> "_minutes", kind |-> "assign",
        when |-> "always", where |-> "body",
        reads |-> {"_date", "ee"}],
       [line |-> 107, target |-> "crs", kind |-> "assign",
        when |-> "always", where |-> "body",
        reads |-> {"image"}],
       [line |-> 108, target |-> "transform", kind |-> "assign",
        when |-> "always", where |-> "body",
        reads |-> {"ee", "image"}],
       [line |-> 109, target |-> "date_string", kind |-> "assign",
        when |-> "always", where |-> "body",
        reads |-> {"_date"}],
       [line |-> 112, target |-> "p_top_NDVI", kind |-> "assign",
        when |-> "always", where |-> "body",
        reads |-> {"NDVI_cold", "ee"}],
       [line |-> 113, target |-> "p_coldest_Ts", kind |-> "assign",
        when |-> "always", where |-> "body",
        reads |-> {"Ts_cold", "ee"}],
       [line |-> 114, target |-> "p_lowest_NDVI", kind |-> "assign",
        when |-> "always", where |-> "body",
        reads |-> {"NDVI_hot", "ee"}],
       [line |-> 115, target |-> "p_hottest_Ts", kind |-> "assign",
        when |-> "always", where |-> "body",
        reads |-> {"Ts_hot", "ee"}],
       [line |-> 117, target |-> "etFeature", kind |-> "assign",
        when |-> "always", where |-> "body",
        reads |-> {"date_string", "ee", "landsat_version", "self"}],
       [line |-> 134, target |-> "errmsg", kind |-> "assign",
        when |-> "always", where |-> "body",
        reads |-> {}],
       [line |-> 139, target |-> "geometryReducer", kind |-> "assign",
        when |-> "always", where |-> "try",
        reads |-> {"image"}],
       [line |-> 142, target |-> "T_air", kind |-> "assign",
        when |-> "always", where |-> "try",
        reads |-> {"image"}],
       [line |-> 145, target |-> "ux", kind |-> "assign",
        when |-> "always", where |-> "try",
        reads |-> {"image"}],
       [line |-> 148, target |-> "UR", kind |-> "assign",
        when |-> "always", where |-> "try",
        reads |-> {"image"}],
       [line |-> 152, target |-> "Rn24hobs", kind |-> "assign",
        when |-> "always", where |-> "try",
        reads |-> {"image"}],
       [line |-> 155, target |-> "srtm", kind |-> "assign",
        when |-> "always", where |-> "try",
        reads |-> {"Constants", "ee", "geometryReducer"}],
       [line |-> 156, target |-> "z_alt", kind |-> "assign",
        when |-> "always", where |-> "try",
        reads |-> {"srtm"}],
       [line |-> 157, target |-> "slope", kind |-> "assign",
        when |-> "always", where |-> "try",
        reads |-> {"ee", "z_alt"}],
       [line |-> 160, target |-> "image", kind |-> "assign",
        when |-> "always", where |-> "try",
        reads |-> {"fexp_spec_ind", "image"}],
       [line |-> 164, target |-> "image", kind |-> "assign",
        when |-> "always", where |-> "try",
        reads |-> {"LST_DEM_correction", "T_air", "UR", "_hour", "_minutes",
                   "image", "sun_elevation", "z_alt"}],
       [line |-> 165, target |-> "T_land", kind |-> "assign",
        when |-> "always", where |-> "try",
        reads |-> {"image"}],
       [line |-> 170, target |-> "d_cold_pixel", kind |-> "assign",
        when |-> "always", where |-> "try",
        reads |-> {"fexp_cold_pixel", "geometryReducer", "image",
                   "p_coldest_Ts", "p_top_NDVI"}],
       [line |-> 173, target |-> "n_Ts_cold", kind |-> "assign",
        when |-> "always", where |-> "try",
        reads |-> {"d_cold_pixel", "ee"}],
       [line |-> 176, target |-> "image", kind |-> "assign",
        when |-> "always", where |-> "try",
        reads |-> {"fexp_radlong_up", "image"}],
       [line |-> 179, target |-> "image", kind |-> "assign",
        when |-> "always", where |-> "try",
        reads |-> {"T_air", "UR", "fexp_radshort_down", "image",
                   "sun_elevation", "z_alt"}],
       [line |-> 182, target |-> "image", kind |-> "assign",
        when |-> "always", where |-> "try",
        reads |-> {"fexp_radlong_down", "image", "n_Ts_cold"}],
       [line |-> 185, target |-> "image", kind |-> "assign",
        when |-> "always", where |-> "try",
        reads |-> {"fexp_radbalance", "image"}],
       [line |-> 188, target |-> "image", kind |-> "assign",
        when |-> "always", where |-> "try",
        reads |-> {"fexp_soil_heat", "image"}],
       [line |-> 191, target |-> "d_hot_pixel", kind |-> "assign",
        when |-> "always", where |-> "try",
        reads |-> {"fexp_hot_pixel", "geometryReducer", "image",
                   "p_hottest_Ts", "p_lowest_NDVI"}],
       [line |-> 194, target |-> "image", kind |-> "assign",
        when |-> "always", where |-> "try",
        reads |-> {"Rn24hobs", "UR", "d_hot_pixel", "date_string",
                   "fexp_sensible_heat_flux_ver_server", "geometryReducer",
                   "image", "n_Ts_cold", "scale", "ux"}],
       [line |-> 198, target |-> "image", kind |-> "assign",
        when |-> "always", where |-> "try",
        reads |-> {"Rn24hobs", "fexp_et", "image"}],
       [line |-> 200, target |-> "NAME_FINAL", kind |-> "assign",
        when |-> "always", where |-> "try",
        reads |-> {"LANDSAT_ID", "ee"}],
       [line |-> 203, target |-> "extractValue", kind |-> "def",
        when |-> "always", where |-> "try",
        reads |-> {}],
       [line |-> 210, target |-> "extractMinValue", kind |-> "def",
        when |-> "always", where |-> "try",
        reads |-> {}],
       [line |-> 216, target |-> "extractMinAndMaxValue", kind |-> "def",
        when |-> "always", where |-> "try",
        reads |-> {}],
       [line |-> 223, target |-> "extractMaxValue", kind |-> "def",
        when |-> "always", where |-> "try",
        reads |-> {}],
       [line |-> 230, target |-> "ET_daily", kind |-> "assign",
        when |-> "always", where |-> "try",
        reads |-> {"NAME_FINAL", "image"}],
       [line |-> 231, target |-> "ET_point", kind |-> "assign",
        when |-> "always", where |-> "try",
        reads |-> {"ET_daily", "extractValue"}],
       [line |-> 233, target |-> "", kind |-> "if",
        when |-> "always", where |-> "try",
        reads |-> {"calcRegionalET"}],
       [line |-> 235, target |-> "ET", kind |-> "assign",
        when |-> "calcRegionalET", where |-> "try",
        reads |-> {"NAME_FINAL", "image"}],
       [line |-> 236, target |-> "ET_MinMax_Daily", kind |-> "assign",
        when |-> "calcRegionalET", where |-> "try",
        reads |-> {"ET", "extractMinAndMaxValue"}],
       [line |-> 237, target |-> "ET_min_daily", kind |-> "assign",
        when |-> "calcRegionalET", where |-> "try",
        reads |-> {"ET_MinMax_Daily"}],
       [line |-> 238, target |-> "ET_max_daily", kind |-> "assign",
        when |-> "calcRegionalET", where |-> "try",
        reads |-> {"ET_MinMax_Daily"}],
       [line |-> 242, target |-> "NDVI_daily", kind |-> "assign",
        when |-> "always", where |-> "try",
        reads |-> {"NAME_FINAL", "image"}],
       [line |-> 243, target |-> "NDVI_point", kind |-> "assign",
        when |-> "always", where |-> "try",
        reads |-> {"NDVI_daily", "extractValue"}],
       [line |-> 245, target |-> "T_air_daily", kind |-> "assign",
        when |-> "always", where |-> "try",
        reads |-> {"NAME_FINAL", "T_air"}],
       [line |-> 246, target |-> "T_air_point", kind |-> "assign",
        when |-> "always", where |-> "try",
        reads |-> {"T_air_daily", "extractValue"}],
       [line |-> 248, target |-> "T_land_daily", kind |-> "assign",
        when |-> "always", where |-> "try",
        reads |-> {"NAME_FINAL", "T_land"}],
       [line |-> 249, target |-> "T_land_point", kind |-> "assign",
        when |-> "always", where |-> "try",
        reads |-> {"T_land_daily", "extractValue"}],
       [line |-> 251, target |-> "ux_daily", kind |-> "assign",
        when |-> "always", where |-> "try",
        reads |-> {"NAME_FINAL", "ux"}],
       [line |-> 252, target |-> "ux_point", kind |-> "assign",
        when |-> "always", where |-> "try",
        reads |-> {"extractValue", "ux_daily"}],
       [line |-> 255, target |-> "UR_daily", kind |-> "assign",
        when |-> "always", where |-> "try",
        reads |-> {"NAME_FINAL", "UR"}],
       [line |-> 256, target |-> "UR_point", kind |-> "assign",
        when |-> "always", where |-> "try",
        reads |-> {"UR_daily", "extractValue"}],
       [line |-> 258, target |-> "z_alt_daily", kind |-> "assign",
        when |-> "always", where |-> "try",
        reads |-> {"NAME_FINAL", "srtm"}],
       [line |-> 259, target |-> "z_alt_point", kind |-> "assign",
        when |-> "always", where |-> "try",
        reads |-> {"extractValue", "z_alt_daily"}],
       [line |-> 261, target |-> "slope_daily", kind |-> "assign",
        when |-> "always", where |-> "try",
        reads |-> {"NAME_FINAL", "slope"}],
       [line |-> 262, target |-> "slope_point", kind |-> "assign",
        when |-> "always", where |-> "try",
        reads |-> {"extractValue", "slope_daily"}],
       [line |-> 265, target |-> "ET_point_get", kind |-> "assign",
        when |-> "always", where |-> "try",
        reads |-> {"ET_point", "NAME_FINAL", "ee"}],
       [line |-> 267, target |-> "", kind |-> "if",
        when |-> "always", where |-> "try",
        reads |-> {"calcRegionalET"}],
       [line |-> 268, target |-> "ET_min_point_get", kind |-> "assign",
        when |-> "calcRegionalET", where |-> "try",
        reads |-> {"ET_min_point", "NAME_FINAL", "ee"}],
       [line |-> 269, target |-> "ET_max_point_get", kind |-> "assign",
        when |-> "calcRegionalET", where |-> "try",
        reads |-> {"ET_max_point", "NAME_FINAL", "ee"}],
       [line |-> 271, target |-> "ET_min_point_get", kind |-> "assign",
        when |-> "not calcRegionalET", where |-> "try",
        reads |-> {"ee"}],
       [line |-> 272, target |-> "ET_max_point_get", kind |-> "assign",
        when |-> "not calcRegionalET", where |-> "try",
        reads |-> {"ee"}],
       [line |-> 274, target |-> "NDVI_point_get", kind |-> "assign",
        when |-> "always", where |-> "try",
        reads |-> {"NAME_FINAL", "NDVI_point", "ee"}],
       [line |-> 275, target |-> "T_air_point_get", kind |-> "assign",
        when |-> "always", where |-> "try",
        reads |-> {"NAME_FINAL", "T_air_point", "ee"}],
       [line |-> 276, target |-> "T_land_point_get", kind |-> "assign",
        when |-> "always", where |-> "try",
        reads |-> {"NAME_FINAL", "T_land_point", "ee"}],
       [line |-> 279, target |-> "ux_point_get", kind |-> "assign",
        when |-> "always", where |-> "try",
        reads |-> {"NAME_FINAL", "ee", "ux_point"}],
       [line |-> 280, target |-> "UR_point_get", kind |-> "assign",
        when |-> "always", where |-> "try",
        reads |-> {"NAME_FINAL", "UR_point", "ee"}],
       [line |-> 281, target |-> "z_alt_point_get", kind |-> "assign",
        when |-> "always", where |-> "try",
        reads |-> {"NAME_FINAL", "ee", "z_alt_point"}],
       [line |-> 282, target |-> "slope_point_get", kind |-> "assign",
        when |-> "always", where |-> "try",
        reads |-> {"NAME_FINAL", "ee", "slope_point"}],
       [line |-> 284, target |-> "precip", kind |-> "assign",
        when |-> "always", where |-> "try",
        reads |-> {"date_string", "retrievePrecip", "self"}],
       [line |-> 286, target |-> "etFeature", kind |-> "assign",
        when |-> "always", where |-> "try",
        reads |-> {"ET_max_point_get", "ET_min_point_get", "ET_point_get",
                   "NDVI_point_get", "T_air_point_get", "T_land_point_get",
                   "UR_point_get", "date_string", "ee", "landsat_version",
                   "precip", "self", "slope_point_get", "ux_point_get",
                   "z_alt_point_get"}],
       [line |-> 328, target |-> "", kind |-> "if",
        when |-> "always", where |-> "body",
        reads |-> {"debug"}],
       [line |-> 329, target |-> "image_bands_max", kind |-> "assign",
        when |-> "debug", where |-> "body",
        reads |-> {"Constants", "ee", "image", "self"}],
       [line |-> 336, target |-> "image_band_features", kind |-> "assign",
        when |-> "debug", where |-> "body",
        reads |-> {"LANDSAT_ID", "ee", "image_bands_max", "landsat_version",
                   "time_start"}],
       [line |-> 344, target |-> "", kind |-> "return",
        when |-> "debug", where |-> "body",
        reads |-> {"ee", "etFeature", "image_band_features"}],
       [line |-> 346, target |-> "", kind |-> "return",
        when |-> "always", where |-> "body",
        reads |-> {"etFeature"}] >>

\* Names bound at module level by the imports of timeseries.py.
ModuleNames ==
    {"ee", "sys", "Constants", "Exception", "fexp_spec_ind",
     "fexp_radlong_up", "LST_DEM_correction", "fexp_radshort_down",
     "fexp_radlong_down", "fexp_radbalance", "fexp_soil_heat",
     "fexp_sensible_heat_flux_ver_server", "fexp_cold_pixel",
     "fexp_hot_pixel", "fexp_et", "get_meteorology", "retrievePrecip",
     "verifyMeteoAvail"}

\* Names of the enclosing __init__ that the nested function can read.
ClosureNames ==
    {"self", "NDVI_cold", "Ts_cold", "NDVI_hot", "Ts_hot", "calcRegionalET",
     "scale"}

\* Parameters of retrieveETandMeteo(image, debug=False).
ParamNames == {"image", "debug"}

\* Imported helpers whose code is outside the package sources: a call of
\* one of them may raise.
Helpers ==
    {"fexp_spec_ind", "fexp_radlong_up", "LST_DEM_correction",
     "fexp_radshort_down", "fexp_radlong_down", "fexp_radbalance",
     "fexp_soil_heat", "fexp_sensible_heat_flux_ver_server",
     "fexp_cold_pixel", "fexp_hot_pixel", "fexp_et"}

\* retrievePrecip as imported from .meteorology: its parameter names.
retrievePrecip_params == {"metadate", "location", "window_days"}

\* Keyword arguments of the calls to functions defined in the sources.
CallKeywords(s) == IF "retrievePrecip" \in s.reads THEN {"scale"} ELSE {}

CallParams(s) == IF "retrievePrecip" \in s.reads THEN retrievePrecip_params
                 ELSE {}

\* Is the branch the statement sits in taken?
Taken(s, calcRegionalET, debug) ==
    CASE s.when = "always"             -> TRUE
      [] s.when = "calcRegionalET"     -> calcRegionalET
      [] s.when = "not calcRegionalET" -> ~calcRegionalET
      [] s.when = "debug"              -> debug

\* The expression bound to ET_min_point_get / ET_max_point_get.
EtRegionExpr(line) ==
    CASE line = 268 -> "ee.Number(ET_min_point.get(NAME_FINAL))"
      [] line = 269 -> "ee.Number(ET_max_point.get(NAME_FINAL))"
      [] line = 271 -> "ee.Number(0.0)"
      [] line = 272 -> "ee.Number(1.0)"
      [] OTHER      -> "unbound"

NoFeature == [status |-> "none", ET_R_min |-> "none", ET_R_max |-> "none"]

\* The feature built by the statement starting on `line`.
FeatureAt(line, vals) ==
    IF line = 117
    THEN [status |-> "no status", ET_R_min |-> "None", ET_R_max |-> "None"]
    ELSE [status |-> "ok", ET_R_min |-> vals.min, ET_R_max |-> vals.max]

\* A handler that swallows the exception, leaving the placeholder feature.
except_handler_returns_placeholder(exc) == [raise |-> FALSE, error |-> "none"]

\* The handler of the try block: a bare except that raises
\* Exception(sys.exc_info()[0]); the 'failed' feature is commented out.
except_handler(exc) == [raise |-> TRUE, error |-> "Exception"]

\* Index of the first statement after the try block.
AfterTry ==
    CHOOSE i \in 1..Len(Stmts) :
        /\ Stmts[i].where = "body"
        /\ i > 1
        /\ Stmts[i - 1].where = "try"

\* The exception the statement raises when run with the names `bound`.
Raises(s, bound) ==
    IF s.reads \ bound # {} THEN "NameError"
    ELSE IF CallKeywords(s) \ CallParams(s) # {} THEN "TypeError"
    ELSE "none"

SebalStart(calcRegionalET, debug) ==
    [pc |-> "run", i |-> 1, calcRegionalET |-> calcRegionalET,
     debug |-> debug,
     bound |-> ModuleNames \cup ClosureNames \cup ParamNames,
     vals |-> [min |-> "unbound", max |-> "unbound"],
     etFeature |-> NoFeature, exc |-> "none", error |-> "none",
     ret |-> [kind |-> "none", feature |-> NoFeature]]

\* What an exception of type exc does to the run d at statement s.
Throw(d, s, exc) ==
    IF s.where = "try"
    THEN LET h == except_handler(exc)
         IN  IF h.raise
             THEN [d EXCEPT !.pc = "raised", !.exc = exc, !.error = h.error]
             ELSE [d EXCEPT !.exc = exc, !.i = AfterTry]
    ELSE [d EXCEPT !.pc = "raised", !.exc = exc, !.error = exc]

\* The statement completes.
Complete(d, s) ==
    CASE s.kind = "return" ->
           [d EXCEPT !.pc = "returned",
                     !.ret = [kind |-> IF s.when = "debug" THEN "debug"
                                       ELSE "feature",
                              feature |-> d.etFeature]]
      [] s.target = "etFeature" ->
           [d EXCEPT !.i = @ + 1, !.bound = @ \cup {s.target},
                     !.etFeature = FeatureAt(s.line, d.vals)]
      [] s.target = "ET_min_point_get" ->
           [d EXCEPT !.i = @ + 1, !.bound = @ \cup {s.target},
                     !.vals.min = EtRegionExpr(s.line)]
      [] s.target = "ET_max_point_get" ->
           [d EXCEPT !.i = @ + 1, !.bound = @ \cup {s.target},
                     !.vals.max = EtRegionExpr(s.line)]
      [] OTHER ->
           [d EXCEPT !.i = @ + 1,
                     !.bound = IF s.target = "" THEN @ ELSE @ \cup {s.target}]

SebalInputs == {SebalStart(c, d) : c \in BOOLEAN, d \in BOOLEAN}

InitSebal ==
    /\ InitEngine
    /\ num = NoNum
    /\ meteo = NoMeteo
    /\ precip = NoPrecip
    /\ sebal \in SebalInputs

\* One statement of retrieveETandMeteo.
SebalStep ==
    /\ sebal.pc = "run"
    /\ LET s == Stmts[sebal.i]
       IN  IF ~Taken(s, sebal.calcRegionalET, sebal.debug)
           THEN sebal' = [sebal EXCEPT !.i = @ + 1]
           ELSE IF Raises(s, sebal.bound) # "none"
           THEN sebal' = Throw(sebal, s, Raises(s, sebal.bound))
           ELSE \/ sebal' = Complete(sebal, s)
                \/ /\ s.reads \cap Helpers # {}
                   /\ sebal' = Throw(sebal, s, "EEException")
    /\ UNCHANGED <<enginevars, threadvars, extvars, num, meteo, precip>>

NextSebal == SebalStep

SpecSebal == InitSebal /\ [][NextSebal]_vars

(***************************************************************************)
(* retrievePrecip: the daily precipitation totals of the days before a     *)
(* date, from the 6-hourly CFSv2 images.  Two copies exist, one in         *)
(* etbrasil/geesebal/meteorology.py and one in etmodels/ssebop.            *)
(***************************************************************************)
RECURSIVE YearFrom(_, _)
YearFrom(d, y) ==
    IF d < DaysInYear(y) THEN y ELSE YearFrom(d - DaysInYear(y), y + 1)

MonthLengths(y) ==
    <<31, IF IsLeap(y) THEN 29 ELSE 28, 31, 30, 31, 30, 31, 31, 30, 31, 30, 31>>

RECURSIVE MonthDay(_, _, _)
MonthDay(d, y, m) ==
    IF d < MonthLengths(y)[m] THEN <<m, d + 1>>
    ELSE MonthDay(d - MonthLengths(y)[m], y, m + 1)

\* date.format('yyyy-MM-dd'): the fixed-width fields year, month, day, whose
\* order as a string is the order of the triple.
format_yyyy_MM_dd(t) ==
    LET y  == YearFrom(t \div 24, 1970)
        md == MonthDay(DayInYear(t \div 24, 1970), y, 1)
    IN  <<y, md[1], md[2]>>

StringLess(a, b) ==
    \/ a[1] < b[1]
    \/ a[1] = b[1] /\ a[2] < b[2]
    \/ a[1] = b[1] /\ a[2] = b[2] /\ a[3] < b[3]

\* Start times of the NOAA/CFSV2/FOR6H images in [from, to).
Cfsv2Images(from, to) == { t \in from..(to - 1) : t % 6 = 0 }

\* ee.List.sequence(0, n): both ends included.
List_sequence(a, b) == [i \in 1..(b - a + 1) |-> a + i - 1]

\* sumPrecip(dayOffset, start_): the images of [start, start + 1 day) summed.
sumPrecip(dayOffset, start_) ==
    LET start == start_ + 24 * dayOffset
        end   == start + 24
    IN  [time_start |-> start, images |-> Cfsv2Images(start, end)]

\* extractPrecip(image): the value at the location with the image's date.
extractPrecip(image) ==
    [precip_value |-> image.images,
     date |-> format_yyyy_MM_dd(image.time_start),
     time_start |-> image.time_start]

\* sort('date', opt_ascending=False)
RECURSIVE sort_date_descending(_)
sort_date_descending(fs) ==
    IF fs = {} THEN <<>>
    ELSE LET top == CHOOSE f \in fs :
                       \A g \in fs : ~StringLess(f.date, g.date)
         IN  <<top>> \o sort_date_descending(fs \ {top})

aggregate_array(fc, property) == [i \in 1..Len(fc) |-> fc[i][property]]

\* Does the module holding the copy compile?  The ssebop copy breaks the
\* call `location.centroid()` across two lines and does not.
module_loads(variant) == variant = "geesebal"

PrecipVariants == {"geesebal", "ssebop"}

\* Dates the function is called with (midnight, hours since 1970-01-01):
\* 2019-01-01, 2019-01-02, 2019-07-15, 2020-01-01, 2020-03-01, 2020-03-02.
PrecipDates == {24 * d : d \in {17897, 17898, 18092, 18262, 18322, 18323}}

WindowDays == 1..MaxWindow

PrecipInputs ==
    { [pc |-> "call", variant |-> v, metadate |-> t, window_days |-> w,
       startDate |-> 0, endDate |-> 0, offsets |-> <<>>, daily |-> {},
       result |-> <<>>, error |-> "none"]
        : v \in PrecipVariants, t \in PrecipDates, w \in WindowDays }

InitPrecip ==
    /\ InitEngine
    /\ num = NoNum
    /\ meteo = NoMeteo
    /\ sebal = NoSebal
    /\ precip \in PrecipInputs

\* The caller imports the module and calls retrievePrecip: the window's ends
\* and the list of day offsets.
PrecipBegin ==
    /\ precip.pc = "call"
    /\ IF ~module_loads(precip.variant)
       THEN precip' = [precip EXCEPT !.pc = "raised", !.error = "SyntaxError"]
       ELSE LET startDate == precip.metadate - 24 * precip.window_days
                endDate   == precip.metadate - 24
                numberOfDays == (endDate - startDate) \div 24
            IN  precip' = [precip EXCEPT
                             !.pc = "daily",
                             !.startDate = startDate,
                             !.endDate = endDate,
                             !.offsets = List_sequence(0, numberOfDays)]
    /\ UNCHANGED <<enginevars, threadvars, extvars, num, meteo, sebal>>

\* One element of the mapped list: the image of one day.
PrecipDay ==
    /\ precip.pc = "daily"
    /\ precip.offsets # <<>>
    /\ precip' = [precip EXCEPT
                    !.offsets = Tail(@),
                    !.daily = @ \cup {sumPrecip(Head(precip.offsets),
                                                precip.startDate)}]
    /\ UNCHANGED <<enginevars, threadvars, extvars, num, meteo, sebal>>

\* The features of the days, sorted, and the array of their values.
PrecipReturn ==
    /\ precip.pc = "daily"
    /\ precip.offsets = <<>>
    /\ LET precip_ts == sort_date_descending(
                            {extractPrecip(image) : image \in precip.daily})
       IN  precip' = [precip EXCEPT
                        !.pc = "returned",
                        !.result = aggregate_array(precip_ts, "precip_value")]
    /\ UNCHANGED <<enginevars, threadvars, extvars, num, meteo, sebal>>

NextPrecip ==
    \/ PrecipBegin
    \/ PrecipDay
    \/ PrecipReturn

SpecPrecip == InitPrecip /\ [][NextPrecip]_vars

(***************************************************************************)
(* Weather availability and interpolation for one Landsat image:           *)
(* verifyMeteoAvail, the filter on meteo_count, and get_meteorology.       *)
(* Times are minutes; the hourly weather dataset is the set of the start   *)
(* times of the images it holds, which may have gaps and an end.           *)
(***************************************************************************)
HourlyGrid == {60 * k : k \in 0..MaxMeteoHours}

MeteoDatasets == SUBSET HourlyGrid

\* system:time_start of the Landsat image, on the half hour or the hour.
LandsatTimes == {30 * k : k \in 6..(2 * MaxMeteoHours)}

\* DATASET.filter(ee.Filter.date(from, to)): start included, end excluded.
Filter_date(dataset, from, to) == {x \in dataset : from <= x /\ x < to}

\* .limit(1, 'system:time_start', False): the latest element, if any.
limit_1_descending(c) == {x \in c : \A y \in c : y <= x}

\* .first(): the element, or null (-1) for an empty collection.
first(c) == IF c = {} THEN -1 ELSE CHOOSE x \in c : TRUE

\* verifyMeteoAvail sets meteo_count to the number of elements of
\* PREVIOUS_IMAGE, the latest sample of [t - 3 h, t); NEXT_TIME is computed
\* and not used.
verifyMeteoAvail(dataset, t) ==
    Cardinality(limit_1_descending(Filter_date(dataset, t - 3 * 60, t)))

MeteoInputs ==
    { [pc |-> "image", t |-> t, dataset |-> d, meteo_count |-> 0,
       previous |-> -1, next |-> -1, delta |-> <<0, 1>>, error |-> "none"]
        : t \in LandsatTimes, d \in MeteoDatasets }

InitMeteo ==
    /\ InitEngine
    /\ num = NoNum
    /\ precip = NoPrecip
    /\ sebal = NoSebal
    /\ meteo \in MeteoInputs

\* .map(verifyMeteoAvail)
VerifyMeteoAvail ==
    /\ meteo.pc = "image"
    /\ meteo' = [meteo EXCEPT
                   !.pc = "verified",
                   !.meteo_count = verifyMeteoAvail(meteo.dataset, meteo.t)]
    /\ UNCHANGED <<enginevars, threadvars, extvars, num, precip, sebal>>

\* .filter(ee.Filter.gt('meteo_count', 0))
FilterMeteoCount ==
    /\ meteo.pc = "verified"
    /\ meteo' = [meteo EXCEPT !.pc = IF meteo.meteo_count > 0 THEN "passed"
                                     ELSE "dropped"]
    /\ UNCHANGED <<enginevars, threadvars, extvars, num, precip, sebal>>

\* .map(get_meteorology), up to DELTA_TIME: reading system:time_start of a
\* null NEXT_IMAGE fails the computation.
GetMeteorology ==
    /\ meteo.pc = "passed"
    /\ LET t == meteo.t
           PREVIOUS_IMAGE ==
               first(limit_1_descending(
                         Filter_date(meteo.dataset, t - 3 * 60, t)))
           NEXT_IMAGE ==
               first(limit_1_descending(
                         Filter_date(meteo.dataset, t, t + 3 * 60)))
       IN  IF PREVIOUS_IMAGE = -1 \/ NEXT_IMAGE = -1
           THEN meteo' = [meteo EXCEPT !.pc = "failed",
                                       !.previous = PREVIOUS_IMAGE,
                                       !.next = NEXT_IMAGE,
                                       !.error = "EEException"]
           ELSE meteo' = [meteo EXCEPT
                            !.pc = "interpolated",
                            !.previous = PREVIOUS_IMAGE,
                            !.next = NEXT_IMAGE,
                            !.delta = Rat(t - PREVIOUS_IMAGE,
                                          NEXT_IMAGE - PREVIOUS_IMAGE)]
    /\ UNCHANGED <<enginevars, threadvars, extvars, num, precip, sebal>>

NextMeteo ==
    \/ VerifyMeteoAvail
    \/ FilterMeteoCount
    \/ GetMeteorology

SpecMeteo == InitMeteo /\ [][NextMeteo]_vars

(***************************************************************************)
(* Properties                                                              *)
(***************************************************************************)
\* The instance exactly as __init__ left it, before any accessor ran.
Constructed == Daily__init__(Inputs, args.method, args.rso_type, args.rso).self

MethodNames   == {asce, refet}
RsoTypeNames  == {simple, full, array}
TallAliases   == {alfalfa, etr_s, tall}
ShortAliases  == {grass, eto_s, short}
LazyAttrs     == {attr_name(p) : p \in LazyNames}

RsoTypeOk == args.rso_type = None \/ Lower(args.rso_type) \in RsoTypeNames

\* C1: a method whose lower-cased form is neither 'asce' nor 'refet' makes
\* the constructor raise ValueError with no field read, no attribute assigned
\* and no formula called; every letter-case variant of the two names passes
\* the method check (with an acceptable rso_type the engine is constructed).
C1_MethodValidated ==
    phase # "new" =>
        /\ Lower(args.method) \notin MethodNames =>
              /\ phase = "failed"
              /\ error = "ValueError"
              /\ self = NoAttrs
              /\ calls = NoCalls
        /\ (Lower(args.method) \in MethodNames /\ RsoTypeOk) =>
              phase = "constructed"

C1_Witness ==
    /\ phase = "failed"
    /\ args.method = <<"b","o","g","u","s">>
    /\ error = "ValueError"

\* C2: with rso_type 'array' and rso None the constructor raises a
\* configuration error, and no constructed instance has an undefined rso.
C2_ArrayNeedsRso ==
    /\ (/\ phase # "new"
        /\ Lower(args.method) \in MethodNames
        /\ args.rso_type # None
        /\ Lower(args.rso_type) = array
        /\ args.rso = None)
       => (phase = "failed" /\ error = "ValueError")
    /\ phase = "constructed" => GetAttr(self, "rso") # NoneNode

\* C3: an rso_type that is given and whose lower-cased form is not 'simple',
\* 'full' or 'array' makes the constructor raise ValueError with no field
\* read, no attribute assigned and no formula called; rso_type None is
\* accepted.
C3_RsoTypeValidated ==
    phase # "new" =>
        /\ (args.rso_type # None /\ Lower(args.rso_type) \notin RsoTypeNames) =>
              /\ phase = "failed"
              /\ error = "ValueError"
              /\ self = NoAttrs
              /\ calls = NoCalls
        /\ (args.rso_type = None /\ Lower(args.method) \in MethodNames) =>
              phase = "constructed"

C3_Witness ==
    /\ phase = "failed"
    /\ Lower(args.method) \in MethodNames
    /\ args.rso_type = <<"a","r","r">>
    /\ error = "ValueError"

\* C4: every valid (method, rso_type) pair constructs an engine whose rso
\* comes from exactly one source: unset rso_type gives the simple model for
\* asce and the full model for refet, simple/full give that model whatever
\* the method, array gives the caller's rso with neither model called; the
\* choice ignores letter case in both arguments.
RsoSource ==
    IF args.rso_type = None
    THEN (IF Lower(args.method) = asce THEN "_rso_simple" ELSE "_rso_daily")
    ELSE IF Lower(args.rso_type) = simple THEN "_rso_simple"
    ELSE IF Lower(args.rso_type) = full THEN "_rso_daily"
    ELSE "caller"

C4_OneRsoSource ==
    (phase # "new" /\ Lower(args.method) \in MethodNames /\ RsoTypeOk) =>
        /\ phase = "constructed"
        /\ RsoSource = "_rso_simple" =>
              /\ self["rso"] = Node("_rso_simple", <<self["ra"], self["elev"]>>)
              /\ calls["_rso_simple"] = 1
              /\ calls["_rso_daily"] = 0
        /\ RsoSource = "_rso_daily" =>
              /\ self["rso"] = Node("_rso_daily",
                     <<self["ea"], self["ra"], self["pair"], self["doy"],
                       self["lat"]>>)
              /\ calls["_rso_simple"] = 0
              /\ calls["_rso_daily"] = 1
        /\ RsoSource = "caller" =>
              /\ self["rso"] = RsoNode(args.rso)
              /\ calls["_rso_simple"] = 0
              /\ calls["_rso_daily"] = 0

C4_Witness ==
    /\ phase = "constructed"
    /\ args.method = <<"R","e","F","E","T">>
    /\ args.rso_type = <<"S","i","m","p","l","e">>
    /\ self["rso"].op = "_rso_simple"

\* The combination equation evaluated on the constructed instance with the
\* given cn and cd, as the image an accessor returns under the given band.
Combination(cn, cd, band) ==
    LET s == SetAttr(SetAttr(Constructed, "cn", Num(cn)), "cd", Num(cd))
    IN  Node("Image", <<Tagged(_etsz(s), band, s)>>)

\* C5: whatever the order of the accessor calls made one after another, the
\* stored and returned eto is the combination equation with cn=900, cd=0.34
\* and the stored and returned etr is the equation with cn=1600, cd=0.38.
C5_OwnConstants ==
    phase = "constructed" =>
        /\ HasAttr(self, "_lazy_eto") =>
              self["_lazy_eto"] = Combination("900", "0.34", "et0")
        /\ HasAttr(self, "_lazy_etr") =>
              self["_lazy_etr"] = Combination("1600", "0.38", "etr")
        /\ last.op = "eto" => last.ret = Combination("900", "0.34", "et0")
        /\ last.op = "etr" => last.ret = Combination("1600", "0.38", "etr")

\* etr was computed first, eto after it.
C5_Witness ==
    /\ phase = "constructed"
    /\ HasAttr(self, "_lazy_etr")
    /\ last.op = "eto"
    /\ last.computed
    /\ self["cn"] = Num("900")

\* C6: when threads race on first accesses to one instance, every stored
\* output is the value one sequential access on the freshly constructed
\* instance produces.
C6_RaceHarmless ==
    phase = "constructed" =>
        \A p \in LazyNames :
            HasAttr(self, attr_name(p)) =>
                self[attr_name(p)] = lazy_property(p, Constructed).ret

\* C7: for each memoized output the property body runs at most once, on the
\* first access, and every later access returns the value stored then,
\* leaving the stored value in place.
C7_ComputedOnce ==
    [][\A p \in LazyNames :
          /\ calls'[p] <= 1
          /\ HasAttr(self, attr_name(p)) =>
                /\ HasAttr(self', attr_name(p))
                /\ self'[attr_name(p)] = self[attr_name(p)]
                /\ calls'[p] = calls[p]
                /\ last'.op = p => last'.ret = self[attr_name(p)]
          /\ (~HasAttr(self, attr_name(p)) /\ last'.op = p) =>
                /\ calls'[p] = 1
                /\ self'[attr_name(p)] = last'.ret
      ]_vars

\* eto returned from the cache by a later access.
C7_Witness ==
    /\ last.op = "eto"
    /\ ~last.computed
    /\ calls["eto"] = 1
    /\ last.ret = self["_lazy_eto"]

\* C8: an accessor call changes nothing on the instance but memo entries:
\* apart from the _lazy_* attributes the instance is as __init__ left it.
C8_OnlyMemoChanges ==
    phase = "constructed" =>
        [a \in (DOMAIN self) \ LazyAttrs |-> self[a]] = Constructed

\* C9: etsz(s) returns the value the eto accessor returns for every s that
\* lower-cases to grass, eto or short, and the value the etr accessor
\* returns for every s that lower-cases to alfalfa, etr or tall, after any
\* earlier accesses.
C9_AliasEquivalence ==
    (phase = "constructed" /\ last.op = "etsz") =>
        /\ Lower(last.surface) \in ShortAliases =>
              /\ last.error = "none"
              /\ last.ret = lazy_property("eto", self).ret
              /\ lazy_property("eto", self).ran = NoCalls
        /\ Lower(last.surface) \in TallAliases =>
              /\ last.error = "none"
              /\ last.ret = lazy_property("etr", self).ret
              /\ lazy_property("etr", self).ran = NoCalls

\* etsz("Short") after etr had been accessed.
C9_Witness ==
    /\ last.op = "etsz"
    /\ last.surface = <<"S","h","o","r","t">>
    /\ last.error = "none"
    /\ HasAttr(self, "_lazy_etr")
    /\ last.ret = self["_lazy_eto"]

\* C10: etsz with a surface whose lower-cased form is none of the six
\* aliases raises ValueError and returns no value.
C10_UnsupportedSurface ==
    (phase = "constructed" /\ last.op = "etsz"
        /\ Lower(last.surface) \notin (TallAliases \cup ShortAliases)) =>
        /\ last.error = "ValueError"
        /\ last.ret = NoneNode
        /\ ~last.computed

C10_Witness ==
    /\ last.op = "etsz"
    /\ last.surface = <<"u","n","k","n","o","w","n">>
    /\ last.error = "ValueError"

Before(log, i) == {StmtTarget(log[j].id) : j \in 1..(i - 1)}
Built == build.pc = Len(StmtOrder) + 1

\* C11: for every valid configuration the constructor assigns each derived
\* quantity exactly once, every assignment reads only attributes assigned
\* before it (no AttributeError), and latitude is converted to radians
\* exactly once, before ra and rso read it.
C11_AssignedInOrder ==
    LET log == build.log
        a   == build.args
        n   == Len(log)
    IN  (build.pc # 0 /\ Lower(a.method) \in MethodNames
            /\ (a.rso_type = None \/ Lower(a.rso_type) \in RsoTypeNames)) =>
          /\ build.error = "none"
          /\ \A i \in 1..n : log[i].reads \subseteq Before(log, i)
          /\ \A d \in DerivedAttrs :
                /\ Cardinality({i \in 1..n : StmtTarget(log[i].id) = d}) <= 1
                /\ Built =>
                     Cardinality({i \in 1..n : StmtTarget(log[i].id) = d}) = 1
          /\ Cardinality({i \in 1..n : log[i].id = "lat_rad"}) <= 1
          /\ Built => Cardinality({i \in 1..n : log[i].id = "lat_rad"}) = 1
          /\ \A i \in 1..n :
                (log[i].id \in {"ra", "rso"} /\ "lat" \in log[i].reads) =>
                    \E j \in 1..(i - 1) : log[j].id = "lat_rad"
          /\ Built =>
                /\ build.self["ra"].args[1] =
                       Multiply(Inputs.lat, Num("pi/180"))
                /\ build.self =
                       Daily__init__(Inputs, a.method, a.rso_type, a.rso).self

\* A finished construction whose rso is the full model, which reads lat.
C11_Witness ==
    /\ Built
    /\ build.error = "none"
    /\ build.args.rso_type = <<"F","U","L","L">>
    /\ build.self["rso"].op = "_rso_daily"
    /\ build.self["rso"].args[5] = Multiply(Inputs.lat, Num("pi/180"))

\* C12: instances share no mutable state: a step that constructs or reads
\* one instance leaves every attribute of the other instance, and so every
\* value it returns, as it was, however the accesses to the two interleave.
C12_InstancesIndependent ==
    [][/\ (other'.n # other.n \/ other'.phase # other.phase) => self' = self
       /\ (pc' # pc \/ phase' # phase) => other' = other
      ]_vars

\* Both instances hold outputs, computed with different constants.
C12_Witness ==
    /\ phase = "constructed"
    /\ other.phase = "constructed"
    /\ HasAttr(self, "_lazy_eto")
    /\ HasAttr(other.self, "_lazy_etr")
    /\ self["cn"] = Num("900")
    /\ other.self["cn"] = Num("1600")

\* The system:time_start property an image carries: the value of the
\* outermost set(), seen through ee.Image() casts.
RECURSIVE TimeStartOf(_)
TimeStartOf(img) ==
    IF img.op = "Image" THEN TimeStartOf(img.args[1])
    ELSE IF img.op = "set_system:time_start" THEN img.args[2]
    ELSE Missing

TminTimeStart == Node("get_system:time_start", <<Node("Image", <<Inputs.tmin>>)>>)

RECURSIVE Origins(_)
Origins(n) ==
    IF n.op = "ee.ImageCollection" THEN {n.args[1].op}
    ELSE IF n.op \in {"input", "rs_arg"} THEN {n.op}
    ELSE UNION {Origins(n.args[i]) : i \in 1..Len(n.args)}

\* The temperature and humidity handed to the engine come from the supplied
\* dataset only.
ThermalFromInput ==
    /\ Origins(adp.in.tmax) = {"input"}
    /\ Origins(adp.in.tmin) = {"input"}
    /\ Origins(adp.in.ea.args[1]) = {"input"}

\* What the caller asked solar radiation to be taken from.
RsRequested ==
    IF adp.a.rs \in {EeImage, EeNumber} THEN {"rs_arg"}
    ELSE IF adp.a.rs # None /\ Upper(adp.a.rs) = GRIDMET
    THEN {"IDAHO_EPSCOR/GRIDMET"}
    ELSE IF adp.a.rs # None /\ Upper(adp.a.rs) = NLDAS
    THEN {"NASA/NLDAS/FORA0125_H002"}
    ELSE {"input"}

\* C14 as stated: in every adapter the temperature, humidity and solar
\* radiation handed to the engine come from the supplied dataset or from an
\* explicit caller argument; an omitted one is never taken from a default
\* source.
C14_NoDefaultSource ==
    adp.in # NoIn =>
        /\ ThermalFromInput
        /\ Origins(adp.in.rs) = RsRequested

\* C14, amended: as above, except that rtma called without rs takes solar
\* radiation from the GRIDMET collection of the same day; no other adapter
\* and no other input has a default source.
C14_OnlyRtmaDefaultsRs ==
    adp.in # NoIn =>
        /\ ThermalFromInput
        /\ IF adp.name = "rtma" /\ adp.a.rs = None
           THEN /\ Origins(adp.in.rs) = {"IDAHO_EPSCOR/GRIDMET"}
                /\ adp.in.rs =
                     Multiply(Image(First(Select(
                         FilterDate(ImageCollection("IDAHO_EPSCOR/GRIDMET"),
                                    adp.a.t, adp.a.t + 24), "srad"))),
                         Num("0.0864"))
           ELSE Origins(adp.in.rs) = RsRequested

\* rtma was called without rs and the engine was constructed.
C14_Witness ==
    /\ adp.name = "rtma"
    /\ adp.a.rs = None
    /\ adp.error = "none"
    /\ HasAttr(adp.self, "rs")
    /\ Origins(adp.self["rs"]) = {"IDAHO_EPSCOR/GRIDMET"}

\* C15: in every adapter a zw, elev or lat supplied by the caller reaches
\* the engine unchanged; exactly the omitted ones get a default, which for
\* zw is 10; and the elevation the actual vapor pressure is derived from is
\* the elevation passed to the engine.
C15_HeightElevLatPassThrough ==
    adp.in # NoIn =>
        /\ adp.in.zw = IF adp.a.zw = NoneNode
                       THEN Node("Number", <<Num("10")>>)
                       ELSE adp.a.zw
        /\ IF adp.a.elev = NoneNode
           THEN adp.in.elev \notin {NoneNode, Leaf("elev_arg")}
           ELSE adp.in.elev = adp.a.elev
        /\ IF adp.a.lat = NoneNode
           THEN adp.in.lat \notin {NoneNode, Leaf("lat_arg")}
           ELSE adp.in.lat = adp.a.lat
        /\ adp.in.ea.op = "_actual_vapor_pressure" =>
              adp.in.ea.args[2] =
                  Node("_air_pressure", <<adp.in.elev, Str(adp.a.method)>>)
        /\ adp.error = "none" =>
              /\ adp.self["zw"] = adp.in.zw
              /\ adp.self["elev"] = adp.in.elev
              /\ adp.self["lat"] = Multiply(adp.in.lat, Num("pi/180"))
              /\ adp.self["ea"] = adp.in.ea

\* nldas called with an elevation of the caller's and without zw and lat.
C15_Witness ==
    /\ adp.name = "nldas"
    /\ adp.error = "none"
    /\ adp.a.zw = NoneNode
    /\ adp.a.lat = NoneNode
    /\ adp.a.elev = Leaf("elev_arg")
    /\ adp.self["zw"] = Node("Number", <<Num("10")>>)
    /\ adp.self["elev"] = Leaf("elev_arg")
    /\ adp.self["ea"].args[2].args[1] = Leaf("elev_arg")

\* Day numbers (days since 1970-01-01) of 1 January 2018, 2019, 2020, 2021.
Jan1Days == { 17532, 17897, 18262, 18628 }

\* The 1-based day of year of time t, counted from the latest 1 January.
DayOfYear(t) ==
    LET d == t \div 24
    IN  d - MaxOf({ j \in Jan1Days : j <= d }) + 1

\* C16: every adapter and every driver passes the engine a doy that is the
\* 1-based day of year of the day being processed (the image date, the first
\* image of the collection, or the driver's loop day): a number in 1..366
\* that is 1 on 1 January.
C16_DoyOneBased ==
    /\ adp.in # NoIn =>
          /\ \E n \in 1..366 :
                adp.in.doy = Number(n) /\ n = DayOfYear(adp.a.t)
          /\ adp.error = "none" => adp.self["doy"] = adp.in.doy
    /\ \A i \in 1..Len(drv.records) :
          \E n \in 1..366 :
             /\ drv.records[i].doy = Number(n)
             /\ n = DayOfYear(drv.records[i].day)

\* A driver run over 30 Dec 2020 .. 1 Jan 2021: doy 365, 366 and 1.
C16_Witness ==
    /\ drv.pc = "returned"
    /\ Len(drv.records) = 3
    /\ drv.records[1].doy = Number(365)
    /\ drv.records[2].doy = Number(366)
    /\ drv.records[3].doy = Number(1)

\* The calendar days (UTC day numbers) on which the collection of the run
\* has samples.
SampleDays ==
    { x.t \div 24 : x \in Samples(drv.name, drv.cfg.start, drv.cfg.end) }

\* C17: a driver run over a range [start_date, end_date) whose samples span
\* N calendar days returns exactly N records, whatever the time of day of
\* the first and last sample.
C17_OneRecordPerCalendarDay ==
    drv.pc = "returned" => Len(drv.records) = Cardinality(SampleDays)

\* C18: the records a driver returns are in day-index order, their time
\* stamps are one day apart and strictly increasing, and each record's
\* system:time_start is the start of its day window, not the time stamp the
\* engine attached.
C18_RecordsOrdered ==
    \A i \in 1..Len(drv.records) :
        LET rec == drv.records[i]
        IN  /\ rec.day_index = i - 1
            /\ TimeStartOf(rec.img) = Num(ToString(rec.day))
            /\ TimeStartOf(rec.img) # TimeStartOf(rec.img.args[1])
            /\ \A x \in rec.samples : rec.day <= x.t
            /\ i > 1 => rec.day = drv.records[i - 1].day + 24

\* A run that returned three records.
C18_Witness ==
    /\ drv.pc = "returned"
    /\ Len(drv.records) = 3
    /\ drv.name = "GFS"
    /\ drv.cfg.tz = 2
    /\ TimeStartOf(drv.records[3].img) =
          Num(ToString(drv.first + 48))

\* C19: each daily record is computed from exactly the samples of the
\* source whose time stamps fall in that calendar day: the k-th record from
\* the samples of the k-th calendar day of the collection.
C19_CalendarDaySamples ==
    \A i \in 1..Len(drv.records) :
        LET coll == Samples(drv.name, drv.cfg.start, drv.cfg.end)
            day0 == MinOf({ x.t : x \in coll }) \div 24
        IN  drv.records[i].samples =
                { x \in coll : x.t \div 24 = day0 + drv.records[i].day_index }

\* C20: a day that fails inside the loop is recorded and the run goes on:
\* the run never ends by the exception of one day.
C20_DayFailureDoesNotAbort ==
    ~(drv.pc = "raised" /\ drv.error = "ValueError")

\* C21: for every instance, the radiation term eto_fs1 plus the aerodynamic
\* term eto_fs2 equals eto, also when ea exceeds es (vpd clamped to 0).
C21_FsTermsSumToEto ==
    num.op = "eto" => RAdd(num.fs1, num.fs2) = num.eto

\* The terms do add up to eto whenever ea does not exceed es.
C21_SumWhenNotSaturated ==
    (num.op = "eto" /\ ~RLess(num.env.es, num.env.ea))
        => RAdd(num.fs1, num.fs2) = num.eto

\* The daily total 0.0864 * mean the other sources hand to the engine.
daily_total_from_mean(coll) ==
    RMul(Rat(SumSeq(coll), Len(coll)), Rat(864, 10000))

\* C30: the nldas rs, sum * 0.0036, equals 0.0864 * mean for a collection
\* of any size, so a day with missing hourly samples gives the same total.
C30_SumEqualsScaledMean ==
    num.op = "rs" => num.rs = daily_total_from_mean(num.coll)

\* With all 24 hourly samples present the two agree.
C30_FullDayAgrees ==
    (num.op = "rs" /\ Len(num.coll) = 24)
        => num.rs = daily_total_from_mean(num.coll)

\* Wind samples of one collection, as (u, v) components [m s-1].
WindCollections ==
    { << [u |-> 3, v |-> 4], [u |-> -3, v |-> -4] >>,
      << [u |-> 3, v |-> 4], [u |-> 3, v |-> 4], [u |-> 0, v |-> 0] >>,
      << [u |-> 6, v |-> 8], [u |-> 0, v |-> 0] >> }

UBands == {"wind_u", "u-component_of_wind_height_above_ground",
           "u_component_of_wind_10m", "u_component_of_wind_10m_above_ground"}

RSqrt(x) == << CHOOSE r \in 0..Abs(x[1]) : r * r = x[1],
               CHOOSE r \in 1..x[2] : r * r = x[2] >>

RECURSIVE RSum(_)
RSum(s) == IF s = <<>> THEN RInt(0) ELSE RAdd(Head(s), RSum(Tail(s)))

RMean(s) == RDiv(RSum(s), RInt(Len(s)))

BandOf(img, band) == IF band \in UBands THEN RInt(img.u) ELSE RInt(img.v)

\* The number a wind graph evaluates to on the samples `coll`; `img` is the
\* sample the mapped function is being applied to.
RECURSIVE WindValue(_, _, _)
WindValue(n, img, coll) ==
    CASE n.op \in {"Image", "rename"} -> WindValue(n.args[1], img, coll)
      [] n.op = "select" -> BandOf(img, n.args[2].op)
      [] n.op = "pow"    -> LET x == WindValue(n.args[1], img, coll)
                            IN  RMul(x, x)
      [] n.op = "add"    -> RAdd(WindValue(n.args[1], img, coll),
                                 WindValue(n.args[2], img, coll))
      [] n.op = "sqrt"   -> RSqrt(WindValue(n.args[1], img, coll))
      [] n.op = "mean"   ->
           LET a == n.args[1]
           IN  IF a.op = "map"
               THEN RMean([i \in 1..Len(coll) |->
                             WindValue(a.args[2], coll[i], coll)])
               ELSE RMean([i \in 1..Len(coll) |->
                             BandOf(coll[i], a.args[2].op)])

Magnitude(img) == RSqrt(RInt(img.u * img.u + img.v * img.v))

MeanOfMagnitudes(coll) == RMean([i \in 1..Len(coll) |-> Magnitude(coll[i])])

\* uz evaluates to the mean over the samples of the per-sample magnitude.
IsMeanOfMagnitudes(uz) ==
    \A coll \in WindCollections :
        WindValue(uz, coll[1], coll) = MeanOfMagnitudes(coll)

RECURSIVE FindOp(_, _)
FindOp(n, op) ==
    IF n.op = op THEN {n}
    ELSE UNION {FindOp(n.args[i], op) : i \in 1..Len(n.args)}

VectorWindAdapters == {"nldas", "cfsv2", "era5", "era5_land", "era5_land_daily"}

\* C22: in nldas, cfsv2, era5, era5_land, era5_land_daily and GFS_ET0 the
\* wind speed uz is the mean over the samples of sqrt(u^2 + v^2), and it is
\* handed to the engine unadjusted, with the height zw, so that the engine's
\* own u2 = _wind_height_adjust(uz, zw) does the height adjustment.
C22_UzIsMeanOfMagnitudes ==
    /\ (adp.name \in VectorWindAdapters /\ adp.error = "none") =>
          /\ IsMeanOfMagnitudes(adp.in.uz)
          /\ GetAttr(adp.self, "uz") = adp.in.uz
          /\ GetAttr(adp.self, "zw") = adp.in.zw
          /\ GetAttr(adp.self, "u2")
               = Node("_wind_height_adjust", <<adp.in.uz, adp.in.zw>>)
    /\ drv.name = "GFS" =>
          \A i \in 1..Len(drv.records) :
             LET u2s == FindOp(drv.records[i].img, "_wind_height_adjust")
             IN  /\ u2s # {}
                 /\ \A u2 \in u2s :
                      /\ IsMeanOfMagnitudes(u2.args[1])
                      /\ u2.args[2] = OrDefault(drv.cfg.zw, driver_zw_default)

\* A vector-wind adapter has run, and on samples (3, 4), (-3, -4) its uz is
\* 5, the mean magnitude, where the magnitude of the mean components is 0.
C22_Witness ==
    /\ adp.name \in VectorWindAdapters
    /\ adp.error = "none"
    /\ LET coll == << [u |-> 3, v |-> 4], [u |-> -3, v |-> -4] >>
       IN  /\ coll \in WindCollections
           /\ WindValue(adp.in.uz, coll[1], coll) = RInt(5)
           /\ RMean(<<RInt(coll[1].u), RInt(coll[2].u)>>) = RInt(0)
           /\ RMean(<<RInt(coll[1].v), RInt(coll[2].v)>>) = RInt(0)

\* Temperature samples [K] of one non-empty collection.
TempCollections == { <<280>>, <<275, 290, 283>>, <<300, 260>> }

SeqMax(s) == CHOOSE x \in {s[i] : i \in 1..Len(s)} :
                 \A i \in 1..Len(s) : s[i] <= x
SeqMin(s) == CHOOSE x \in {s[i] : i \in 1..Len(s)} :
                 \A i \in 1..Len(s) : x <= s[i]

\* The number a temperature graph evaluates to on the samples `coll`.
RECURSIVE TempValue(_, _)
TempValue(n, coll) ==
    CASE n.op = "max" -> RInt(SeqMax(coll))
      [] n.op = "min" -> RInt(SeqMin(coll))
      [] n.op = "subtract" /\ n.args[2] = Num("273.15") ->
            RSub(TempValue(n.args[1], coll), Rat(27315, 100))

\* Both graphs reduce the same band of the same collection.
SameSource(tmax, tmin) ==
    LET hi == FindOp(tmax, "max")
        lo == FindOp(tmin, "min")
    IN  /\ Cardinality(hi) = 1
        /\ Cardinality(lo) = 1
        /\ \A a \in hi, b \in lo : a.args = b.args

TmaxNotBelowTmin(in) ==
    /\ SameSource(in.tmax, in.tmin)
    /\ \A coll \in TempCollections :
          ~RLess(TempValue(in.tmax, coll), TempValue(in.tmin, coll))

SingleBandAdapters == {"nldas", "rtma", "era5", "era5_land", "era5_land_daily"}

\* C28: in nldas, rtma, era5, era5_land, era5_land_daily, GFS_ET0 and
\* NASA_ET0 the tmax handed to the engine is never below the tmin: both
\* reduce the same band of the same non-empty collection and carry the same
\* Kelvin offset.
C28_TmaxAtLeastTmin ==
    /\ (adp.name \in SingleBandAdapters /\ adp.error = "none") =>
          /\ TmaxNotBelowTmin(adp.in)
          /\ GetAttr(adp.self, "tmax") = adp.in.tmax
          /\ GetAttr(adp.self, "tmin") = adp.in.tmin
    /\ \A i \in 1..Len(drv.records) :
          LET day == drv.records[i].day
              in  == driver_inputs(drv.name,
                         collection_day(drv.name, drv.cfg.start, drv.cfg.end,
                                        day),
                         drv.cfg.zw, drv.cfg.method, day)
          IN  /\ TmaxNotBelowTmin(in)
              /\ in.tmax \in FindOp(drv.records[i].img, in.tmax.op)
              /\ in.tmin \in FindOp(drv.records[i].img, in.tmin.op)

\* NASA_ET0 has produced a day from a non-empty window; on samples 300 K and
\* 260 K its tmax is 26.85 and its tmin -13.15 degrees Celsius.
C28_Witness ==
    /\ drv.name = "NASA"
    /\ Len(drv.records) > 0
    /\ drv.records[1].samples # {}
    /\ LET day == drv.records[1].day
           in  == driver_inputs(drv.name,
                      collection_day(drv.name, drv.cfg.start, drv.cfg.end, day),
                      drv.cfg.zw, drv.cfg.method, day)
       IN  /\ TempValue(in.tmax, <<300, 260>>) = Rat(2685, 100)
           /\ TempValue(in.tmin, <<300, 260>>) = Rat(-1315, 100)

\* C26: in NASA_ET0.calculate_eto_daily the day windows
\* [t0 + k days, t0 + (k+1) days), k = 0..D-1, with t0 the first sample's
\* timestamp and D = (last - first).days + 1, are pairwise disjoint and
\* together contain every sample of the filtered collection.
C26_WindowsPartitionSamples ==
    (drv.name = "NASA" /\ drv.pc = "returned") =>
        /\ \A i, j \in 1..Len(drv.records) :
              i # j => drv.records[i].samples \cap drv.records[j].samples = {}
        /\ UNION {drv.records[i].samples : i \in 1..Len(drv.records)}
             = Samples("NASA", drv.cfg.start, drv.cfg.end)

\* On a host whose local time is UTC the windows do partition the samples.
C26_PartitionOnUtcHost ==
    (drv.name = "NASA" /\ drv.pc = "returned" /\ drv.cfg.tz = 0) =>
        /\ \A i, j \in 1..Len(drv.records) :
              i # j => drv.records[i].samples \cap drv.records[j].samples = {}
        /\ UNION {drv.records[i].samples : i \in 1..Len(drv.records)}
             = Samples("NASA", drv.cfg.start, drv.cfg.end)

\* The windows are pairwise disjoint on every host.
C26_WindowsDisjoint ==
    (drv.name = "NASA" /\ drv.pc = "returned") =>
        \A i, j \in 1..Len(drv.records) :
           i # j => drv.records[i].samples \cap drv.records[j].samples = {}

\* The loop of calculate_eto_daily run to its end from the driver state d.
RECURSIVE run_loop(_)
run_loop(d) ==
    IF d.pc = "loop" /\ d.day_index < d.days THEN run_loop(loop_day(d)) ELSE d

\* C27: the result of GFS_ET0 / NASA_ET0 calculate_eto_daily does not depend
\* on its `method` argument: called with any other value, on the same object,
\* it returns the same records or raises the same error.
C27_MethodArgumentIgnored ==
    drv.pc \in {"returned", "raised"} =>
        \A m \in DriverMethods :
           LET r == run_loop(driver_begin(drv.name,
                                          [drv.cfg EXCEPT !.call_method = m]))
           IN  /\ r.records = drv.records
               /\ r.error = drv.error

\* An object built with a valid method was called with an invalid one and
\* still returned its daily records.
C27_Witness ==
    /\ drv.pc = "returned"
    /\ Len(drv.records) > 0
    /\ method_valid(drv.cfg.method)
    /\ ~method_valid(drv.cfg.call_method)

C24_RegionalFeatureBuilt ==
    /\ sebal.exc \notin {"NameError", "TypeError"}
    /\ (sebal.pc = "run" /\ Stmts[sebal.i].line > 301) =>
          /\ sebal.etFeature.status = "ok"
          /\ sebal.calcRegionalET =>
                /\ sebal.etFeature.ET_R_min \notin {"None", "unbound"}
                /\ sebal.etFeature.ET_R_max \notin {"None", "unbound"}
          /\ ~sebal.calcRegionalET =>
                /\ sebal.etFeature.ET_R_min = "ee.Number(0.0)"
                /\ sebal.etFeature.ET_R_max = "ee.Number(1.0)"

\* Every run in which no helper fails ends by raising: with
\* calcRegionalET=True on the read of ET_min_point, otherwise on the call of
\* retrievePrecip.
C24_EveryRunRaises ==
    /\ sebal.pc # "returned"
    /\ (sebal.pc = "raised" /\ sebal.exc = "NameError") =>
          /\ sebal.calcRegionalET
          /\ Stmts[sebal.i].line = 268
    /\ (sebal.pc = "raised" /\ sebal.exc = "TypeError") =>
          /\ ~sebal.calcRegionalET
          /\ Stmts[sebal.i].line = 284

\* The 6-hourly images of the calendar day that lies k days before t.
DayBefore(t, k) == Cfsv2Images(t - 24 * k, t - 24 * (k - 1))

\* C25: retrievePrecip(metadate, location, window_days) returns exactly
\* window_days values, the daily total of each of the window_days days
\* before metadate (metadate - window_days .. metadate - 1), the most recent
\* day first.
C25_OneValuePerPrecedingDay ==
    precip.pc \notin {"call", "daily"} =>
        /\ precip.pc = "returned"
        /\ Len(precip.result) = precip.window_days
        /\ \A k \in 1..precip.window_days :
              precip.result[k] = DayBefore(precip.metadate, k)

\* The copy in etbrasil/geesebal returns what the claim says.
C25_GeesebalCopyConforms ==
    (precip.variant = "geesebal" /\ precip.pc \notin {"call", "daily"}) =>
        /\ precip.pc = "returned"
        /\ Len(precip.result) = precip.window_days
        /\ \A k \in 1..precip.window_days :
              precip.result[k] = DayBefore(precip.metadate, k)

\* C29: for every image that passes verifyMeteoAvail (meteo_count > 0) the
\* interpolation of get_meteorology is well defined: a previous sample in
\* [t - 3 h, t) and a next sample in [t, t + 3 h) exist, the previous one is
\* strictly earlier than the next, and DELTA_TIME lies in [0, 1].
C29_InterpolationDefined ==
    meteo.pc \in {"interpolated", "failed"} =>
        /\ meteo.pc = "interpolated"
        /\ meteo.previous \in Filter_date(meteo.dataset, meteo.t - 180, meteo.t)
        /\ meteo.next \in Filter_date(meteo.dataset, meteo.t, meteo.t + 180)
        /\ meteo.previous < meteo.next
        /\ ~RLess(meteo.delta, RInt(0))
        /\ ~RLess(RInt(1), meteo.delta)

\* Whenever the next sample exists as well, the interpolation is defined.
C29_DefinedWhenNextExists ==
    meteo.pc = "interpolated" =>
        /\ meteo.previous \in Filter_date(meteo.dataset, meteo.t - 180, meteo.t)
        /\ meteo.next \in Filter_date(meteo.dataset, meteo.t, meteo.t + 180)
        /\ meteo.previous < meteo.next
        /\ RLess(RInt(0), meteo.delta)
        /\ ~RLess(RInt(1), meteo.delta)

\* The failures are exactly the images with no sample in [t, t + 3 h).
C29_FailsWithoutNextSample ==
    meteo.pc = "failed" =>
        /\ meteo.meteo_count > 0
        /\ meteo.previous # -1
        /\ Filter_date(meteo.dataset, meteo.t, meteo.t + 180) = {}

====
